---- MODULE Spec2Model ----
(***************************************************************************)
(* A model of the Jira justification plugin of abcxyz/jvs-plugin-jira:    *)
(* JiraPlugin.Validate (pkg/plugin/plugin.go) on top of the Validator     *)
(* client (pkg/plugin/validator.go), which resolves an issue key with a   *)
(* lookup GET and evaluates the configured JQL with a match POST.         *)
(*                                                                         *)
(* Conventions.                                                            *)
(*  - A Go string that takes part in path operations (the justification   *)
(*    value, an issue key, the path of a base URL) is the sequence of its *)
(*    "/"-separated elements; Text renders it.  The empty string is <<>>. *)
(*  - A Go error is the sequence of its wrapping layers, outermost first; *)
(*    nil is <<>>.  errors.Is walks the layers.                            *)
(*  - A pointer result that may be nil is a sequence of length 0 or 1.    *)
(*  - A Validate call blocks on its two HTTP calls, so one call is three  *)
(*    steps: ValidateCall, LookupResponse, MatchResponse.                  *)
(***************************************************************************)
EXTENDS Integers, Sequences, FiniteSets, TLC

(***************************************************************************)
(* Bounds of the model.                                                    *)
(***************************************************************************)
\* Validate calls that may be in progress at the same time.
NumCalls == 2
\* Longest "matches" array in a match response body.
MaxMatches == 2
\* Longest "matchedIssues" array of one Match.
MaxMatched == 2

(***************************************************************************)
(* Constants of the program.                                               *)
(***************************************************************************)
jiraCategory == "jira"
jiraIssueID == "jira_issue_id"
jiraIssueURL == "jira_issue_url"
StatusBadRequest == 400
StatusInternalServerError == 500
jiraResponseSizeLimitBytes == 4000000

(***************************************************************************)
(* Errors.                                                                 *)
(***************************************************************************)
Nil == <<>>

\* One layer of an error: a format string and its rendered operands.
Layer(format, args) == [fmt |-> format, args |-> args]

\* The sentinel that marks a fault of the caller's input.
errInvalidJustification == <<Layer("invalid justification", <<>>)>>

\* fmt.Errorf(format + ": %w", args..., err): a new error that wraps err.
\* With a nil err the result is still a non-nil error (it wraps nothing).
Errorf(format, args, err) == <<Layer(format, args)>> \o err

\* errors.Join: nil operands are discarded; nil if all are nil.
ErrorsJoin(a, b) == a \o b

\* errors.Is(err, target) for a sentinel target.
ErrorsIs(err, target) == \E i \in 1..Len(err) : err[i] = target[1]

(***************************************************************************)
(* Strings, paths and URLs.                                                *)
(***************************************************************************)
RECURSIVE Text(_)
\* The Go string of a sequence of path elements: the elements joined by "/".
Text(elems) ==
    IF elems = <<>> THEN ""
    ELSE IF Len(elems) = 1 THEN elems[1]
    ELSE elems[1] \o "/" \o Text(Tail(elems))

RECURSIVE IntsText(_)
\* The elements of fmt's %v rendering of a []int, separated by spaces.
IntsText(ints) ==
    IF ints = <<>> THEN ""
    ELSE IF Len(ints) = 1 THEN ToString(ints[1])
    ELSE ToString(ints[1]) \o " " \o IntsText(Tail(ints))

\* fmt's %v rendering of a []int: "[1234 5678]".
FormatInts(ints) == "[" \o IntsText(ints) \o "]"

\* strconv.Itoa.
Itoa(n) == ToString(n)

RECURSIVE CleanFrom(_, _)
\* path.Clean of a rooted path: "." is dropped, ".." removes the element
\* before it and is dropped at the root.
CleanFrom(done, rest) ==
    IF rest = <<>> THEN done
    ELSE IF Head(rest) = "." THEN CleanFrom(done, Tail(rest))
    ELSE IF Head(rest) = ".."
        THEN CleanFrom(IF done = <<>> THEN <<>> ELSE SubSeq(done, 1, Len(done) - 1),
                       Tail(rest))
    ELSE CleanFrom(Append(done, Head(rest)), Tail(rest))

\* path.Join of rooted path elements.
PathJoin(elems) == CleanFrom(<<>>, elems)

\* A parsed url.URL: origin is scheme://host ("" for a relative reference).
URLString(origin, path) ==
    IF origin = "" THEN Text(path) ELSE
    IF path = <<>> THEN origin ELSE origin \o "/" \o Text(path)

\* url.JoinPath(base, elem...): fails exactly when base does not parse;
\* otherwise the elements are joined to the base path and cleaned.
JoinPath(base, elems) ==
    IF ~base.parses
        THEN [url |-> "", err |-> <<Layer("parse error", <<>>)>>]
        ELSE [url |-> URLString(base.origin, PathJoin(base.path \o elems)),
              err |-> Nil]

(***************************************************************************)
(* The remote API: what an outbound HTTP call can be answered with.       *)
(***************************************************************************)
\* HTTP statuses the remote answers with, on both sides of 400 and 500.
Statuses == {200, 399, 400, 404, 499, 500, 503}

\* Internal issue numbers the match endpoint reports.
IssueNumbers == {1234, 5678}

\* The id (a decimal string) and key of the issue objects the lookup
\* endpoint reports; "" and <<>> stand for a field absent from the object.
Issues ==
    {[id |-> "", key |-> <<>>],
     [id |-> "1234", key |-> <<"ABCD">>],
     [id |-> "5678", key |-> <<"ZZ-9">>]}

\* Warnings of the JQL engine.
JqlWarnings == {<<>>, <<"jql warning">>}

\* All sequences over S of length at most n.
SeqUpTo(S, n) == UNION {[1..k -> S] : k \in 0..n}

\* One element of the "matches" array: JSON null, or an object whose
\* matchedIssues and errors arrays may be absent (then empty).
MatchEntries ==
    [null : {FALSE}, matchedIssues : SeqUpTo(IssueNumbers, MaxMatched),
     errors : JqlWarnings]
    \cup {[null |-> TRUE, matchedIssues |-> <<>>, errors |-> <<>>]}

\* The size of a response body in bytes: length is the size of the whole
\* body, valueEnd the offset at which its first JSON value ends.
ShortSize == [length |-> 64, valueEnd |-> 64]

\* Sizes around the cap: a value that fills the cap exactly, a short value
\* followed by bytes past the cap, and a value that is longer than the cap.
LongSizes ==
    {[length |-> jiraResponseSizeLimitBytes, valueEnd |-> jiraResponseSizeLimitBytes],
     [length |-> jiraResponseSizeLimitBytes + 1, valueEnd |-> 64],
     [length |-> jiraResponseSizeLimitBytes + 1,
      valueEnd |-> jiraResponseSizeLimitBytes + 1]}

\* The body of the given content and size.
Sized(content, size) ==
    [form |-> content.form, id |-> content.id, key |-> content.key,
     matches |-> content.matches,
     length |-> size.length, valueEnd |-> size.valueEnd]

\* A response body, by its JSON form: "malformed" (not JSON, empty or cut
\* short), "null", "array" (JSON of another type than the one expected) or
\* "object" with the fields the two decoders look at.
EmptyBody ==
    [form |-> "malformed", id |-> "", key |-> <<>>, matches |-> <<>>,
     length |-> 0, valueEnd |-> 0]
OtherContents ==
    [form : {"malformed", "null", "array"}, id : {""}, key : {<<>>},
     matches : {<<>>}]
OtherBodies == {Sized(b, ShortSize) : b \in OtherContents}
LookupBodies ==
    OtherBodies
    \cup {Sized([form |-> "object", id |-> i.id, key |-> i.key, matches |-> <<>>],
                ShortSize) : i \in Issues}
    \cup {Sized([form |-> "object", id |-> "1234", key |-> <<"ABCD">>,
                 matches |-> <<>>], z) : z \in LongSizes}
\* The elements that follow the first one in a "matches" array: null, no
\* match, one match with a warning, and the longest list of matches.
ExtraEntries ==
    {e \in MatchEntries :
        \/ e.null
        \/ e.errors = <<>> /\ e.matchedIssues = <<>>
        \/ e.errors # <<>> /\ e.matchedIssues = <<5678>>
        \/ e.errors = <<>> /\ e.matchedIssues = [i \in 1..MaxMatched |-> 1234]}

\* The "matches" arrays: empty, or any first element followed by up to
\* MaxMatches - 1 further ones.
MatchArrays ==
    {<<>>} \cup
    {<<first>> \o rest :
        first \in MatchEntries, rest \in SeqUpTo(ExtraEntries, MaxMatches - 1)}

MatchBodies ==
    OtherBodies
    \cup {Sized([form |-> "object", id |-> "", key |-> <<>>, matches |-> a],
                ShortSize) : a \in MatchArrays}
    \cup {Sized([form |-> "object", id |-> "", key |-> <<>>,
                 matches |-> <<[null |-> FALSE, matchedIssues |-> m,
                                errors |-> <<>>]>>], z) :
            m \in {<<>>, <<1234>>}, z \in LongSizes}

\* Failures of http.Client.Do: no response at all.
TransportErrors ==
    {<<Layer("connection refused", <<>>)>>,
     <<Layer("Client.Timeout exceeded", <<>>)>>,
     <<Layer("context canceled", <<>>)>>}

\* An answer is a transport failure or a response with status and body.
AnswersWith(bodies) ==
    [transport : TransportErrors, status : {0}, body : {EmptyBody}]
    \cup [transport : {Nil}, status : Statuses, body : bodies]

LookupAnswers == AnswersWith(LookupBodies)
MatchAnswers == AnswersWith(MatchBodies)

(***************************************************************************)
(* The Validator client (validator.go).                                    *)
(***************************************************************************)
\* The zero value of the two response types.
ZeroValue(target) ==
    IF target = "jiraIssue" THEN [ID |-> "", Key |-> <<>>]
    ELSE [Matches |-> <<>>]

\* The smaller of two numbers.
Min(a, b) == IF a <= b THEN a ELSE b

\* io.LimitReader(resp.Body, n): the body as the decoder sees it, EOF after
\* n bytes.  A first value that does not end within n bytes is cut short.
LimitReader(body, n) ==
    [body EXCEPT !.length = Min(@, n),
                 !.form = IF body.valueEnd > n THEN "malformed" ELSE @]

\* json.NewDecoder(r).Decode(&respVal) into a jiraIssue or a MatchResult:
\* unknown and absent fields are ignored, null leaves the zero value, and a
\* null element of "matches" becomes a nil *Match.
Decode(body, target) ==
    IF body.form = "malformed"
        THEN [val |-> ZeroValue(target), err |-> <<Layer("json: syntax error", <<>>)>>]
    ELSE IF body.form = "array"
        THEN [val |-> ZeroValue(target),
              err |-> <<Layer("json: cannot unmarshal array", <<>>)>>]
    ELSE IF body.form = "null"
        THEN [val |-> ZeroValue(target), err |-> Nil]
    ELSE IF target = "jiraIssue"
        THEN [val |-> [ID |-> body.id, Key |-> body.key], err |-> Nil]
    ELSE [val |-> [Matches |-> body.matches], err |-> Nil]

\* makeRequest with the two status checks in the wrong order: every status
\* from 400 up is classified as an input fault.
makeRequest_StatusOrder(ans, target) ==
    IF ans.transport # Nil
        THEN [val |-> ZeroValue(target), read |-> 0,
              err |-> Errorf("failed to make request", <<>>, ans.transport)]
    ELSE IF ans.status >= StatusBadRequest
        THEN [val |-> ZeroValue(target), read |-> 0,
              err |-> Errorf("failed to make request to %s, got response code %d",
                             <<ToString(ans.status)>>,
                             ErrorsJoin(errInvalidJustification, Nil))]
    ELSE LET r == LimitReader(ans.body, jiraResponseSizeLimitBytes)
             d == Decode(r, target) IN
        IF d.err # Nil
            THEN [val |-> ZeroValue(target), read |-> r.length,
                  err |-> Errorf("failed to decode response", <<>>, d.err)]
            ELSE [val |-> d.val, read |-> r.length, err |-> Nil]

\* makeRequest that drops the error of Decode and of Do.
makeRequest_IgnoreFailure(ans, target) ==
    IF ans.transport # Nil
        THEN [val |-> ZeroValue(target), read |-> 0, err |-> Nil]
    ELSE IF ans.status >= StatusInternalServerError
        THEN [val |-> ZeroValue(target), read |-> 0,
              err |-> Errorf("failed to make request to %s, got response code %d",
                             <<ToString(ans.status)>>, Nil)]
    ELSE IF ans.status >= StatusBadRequest
        THEN [val |-> ZeroValue(target), read |-> 0,
              err |-> Errorf("failed to make request to %s, got response code %d",
                             <<ToString(ans.status)>>,
                             ErrorsJoin(errInvalidJustification, Nil))]
    ELSE LET r == LimitReader(ans.body, jiraResponseSizeLimitBytes) IN
        [val |-> Decode(r, target).val, read |-> r.length, err |-> Nil]

\* makeRequest that decodes resp.Body itself, without the LimitReader.
makeRequest_NoLimit(ans, target) ==
    IF ans.transport # Nil
        THEN [val |-> ZeroValue(target), read |-> 0,
              err |-> Errorf("failed to make request", <<>>, ans.transport)]
    ELSE IF ans.status >= StatusInternalServerError
        THEN [val |-> ZeroValue(target), read |-> 0,
              err |-> Errorf("failed to make request to %s, got response code %d",
                             <<ToString(ans.status)>>, Nil)]
    ELSE IF ans.status >= StatusBadRequest
        THEN [val |-> ZeroValue(target), read |-> 0,
              err |-> Errorf("failed to make request to %s, got response code %d",
                             <<ToString(ans.status)>>,
                             ErrorsJoin(errInvalidJustification, Nil))]
    ELSE LET d == Decode(ans.body, target) IN
        IF d.err # Nil
            THEN [val |-> ZeroValue(target), read |-> ans.body.length,
                  err |-> Errorf("failed to decode response", <<>>, d.err)]
            ELSE [val |-> d.val, read |-> ans.body.length, err |-> Nil]

\* makeRequest that decodes the body before it looks at the status.
makeRequest_DecodeFirst(ans, target) ==
    IF ans.transport # Nil
        THEN [val |-> ZeroValue(target), read |-> 0,
              err |-> Errorf("failed to make request", <<>>, ans.transport)]
    ELSE LET r == LimitReader(ans.body, jiraResponseSizeLimitBytes)
             d == Decode(r, target) IN
        IF d.err # Nil
            THEN [val |-> ZeroValue(target), read |-> r.length,
                  err |-> Errorf("failed to decode response", <<>>, d.err)]
        ELSE IF ans.status >= StatusInternalServerError
            THEN [val |-> ZeroValue(target), read |-> r.length,
                  err |-> Errorf("failed to make request to %s, got response code %d",
                                 <<ToString(ans.status)>>, Nil)]
        ELSE IF ans.status >= StatusBadRequest
            THEN [val |-> ZeroValue(target), read |-> r.length,
                  err |-> Errorf("failed to make request to %s, got response code %d",
                                 <<ToString(ans.status)>>,
                                 ErrorsJoin(errInvalidJustification, Nil))]
        ELSE [val |-> d.val, read |-> r.length, err |-> Nil]

\* Validator.makeRequest: the status is classified before the body is read,
\* and the body is read through the LimitReader.  In both status branches
\* err is the nil that Do returned.  read is the number of bytes of the body
\* that the decoder can be given.
makeRequest(ans, target) ==
    IF ans.transport # Nil
        THEN [val |-> ZeroValue(target), read |-> 0,
              err |-> Errorf("failed to make request", <<>>, ans.transport)]
    ELSE IF ans.status >= StatusInternalServerError
        THEN [val |-> ZeroValue(target), read |-> 0,
              err |-> Errorf("failed to make request to %s, got response code %d",
                             <<ToString(ans.status)>>, Nil)]
    ELSE IF ans.status >= StatusBadRequest
        THEN [val |-> ZeroValue(target), read |-> 0,
              err |-> Errorf("failed to make request to %s, got response code %d",
                             <<ToString(ans.status)>>,
                             ErrorsJoin(errInvalidJustification, Nil))]
    ELSE LET r == LimitReader(ans.body, jiraResponseSizeLimitBytes)
             d == Decode(r, target) IN
        IF d.err # Nil
            THEN [val |-> ZeroValue(target), read |-> r.length,
                  err |-> Errorf("failed to decode response", <<>>, d.err)]
            ELSE [val |-> d.val, read |-> r.length, err |-> Nil]

\* jiraIssue that takes a 4xx answer for an issue without fields.
jiraIssue_Tolerant4xx(ans) ==
    LET r == makeRequest(ans, "jiraIssue") IN
    IF r.err # Nil /\ ErrorsIs(r.err, errInvalidJustification)
        THEN [issue |-> <<r.val>>, read |-> r.read, err |-> Nil]
    ELSE IF r.err # Nil THEN [issue |-> <<>>, read |-> r.read, err |-> r.err]
    ELSE [issue |-> <<r.val>>, read |-> r.read, err |-> Nil]

\* jiraIssue that drops the error of makeRequest.
jiraIssue_IgnoreErr(ans) ==
    LET r == makeRequest(ans, "jiraIssue") IN
    [issue |-> <<r.val>>, read |-> r.read, err |-> Nil]

\* Validator.jiraIssue, from the answer to its GET on.
jiraIssue(ans) ==
    LET r == makeRequest(ans, "jiraIssue") IN
    IF r.err # Nil THEN [issue |-> <<>>, read |-> r.read, err |-> r.err]
    ELSE [issue |-> <<r.val>>, read |-> r.read, err |-> Nil]

\* Validator.matchJQL, from the answer to its POST on.
matchJQL(ans) ==
    LET r == makeRequest(ans, "MatchResult") IN
    IF r.err # Nil THEN [result |-> <<>>, read |-> r.read, err |-> r.err]
    ELSE [result |-> <<r.val>>, read |-> r.read, err |-> Nil]

\* Validator.MatchIssue when jiraIssue has failed.
MatchIssueLookupFailed(issueKey, err) ==
    [result |-> <<>>,
     err |-> Errorf("failed to get jira issue %q", <<Text(issueKey)>>, err)]

\* MatchIssue that formats the error of matchJQL with %v instead of %w: the
\* message is kept, the wrapped chain is lost.
MatchIssue_Flatten(issueKey, mj) ==
    IF mj.err # Nil
        THEN [result |-> <<>>,
              err |-> Errorf("failed to validate jira issue %q",
                             <<Text(issueKey)>>, Nil)]
        ELSE [result |-> mj.result, err |-> Nil]

\* Validator.MatchIssue from the return of matchJQL on.
MatchIssue(issueKey, mj) ==
    IF mj.err # Nil
        THEN [result |-> <<>>,
              err |-> Errorf("failed to validate jira issue %q",
                             <<Text(issueKey)>>, mj.err)]
        ELSE [result |-> mj.result, err |-> Nil]

\* The GET request of Validator.jiraIssue.
IssueRequest(v, issueIDOrKey) ==
    [method |-> "GET",
     url |-> URLString(v.baseURL.origin,
                       PathJoin(v.baseURL.path \o <<"issue">> \o issueIDOrKey)),
     query |-> "fields=key%2Cid",
     auth |-> <<v.account, v.apiToken>>,
     accept |-> "application/json", contentType |-> "",
     issueIds |-> <<>>, jqls |-> <<>>]

\* MatchRequest that sends the key of the issue in place of its id.
MatchRequest_SendsKey(v, issue) ==
    [method |-> "POST",
     url |-> URLString(v.baseURL.origin,
                       PathJoin(v.baseURL.path \o <<"jql", "match">>)),
     query |-> "",
     auth |-> <<v.account, v.apiToken>>,
     accept |-> "application/json", contentType |-> "application/json",
     issueIds |-> <<Text(issue.Key)>>, jqls |-> <<v.jql>>]

\* The POST request of Validator.matchJQL.
MatchRequest(v, issue) ==
    [method |-> "POST",
     url |-> URLString(v.baseURL.origin,
                       PathJoin(v.baseURL.path \o <<"jql", "match">>)),
     query |-> "",
     auth |-> <<v.account, v.apiToken>>,
     accept |-> "application/json", contentType |-> "application/json",
     issueIds |-> <<issue.ID>>, jqls |-> <<v.jql>>]

(***************************************************************************)
(* The plugin (plugin.go).                                                 *)
(***************************************************************************)
\* What a Validate call ends with: the returned response (nil is <<>>), the
\* returned error (nil is <<>>), or a run-time panic that returns nothing.
Returns(resp, err) == [resp |-> resp, err |-> err, panicked |-> FALSE]
Panics == [resp |-> <<>>, err |-> <<>>, panicked |-> TRUE]
NoOutcome == Returns(<<>>, <<>>)

\* internalErr: a gRPC status error with code Internal.
internalErr(justificationValue) ==
    [code |-> "Internal",
     msg |-> Layer("unable to validate jira issue %q", <<Text(justificationValue)>>)]

\* invalidErrResponse that leaves an empty jira_issue_id in the annotations.
invalidErrResponse_Annotated(errStr) ==
    [Valid |-> FALSE, Warning |-> <<>>, Error |-> <<errStr>>,
     Annotation |-> {<<jiraIssueID, "">>}]

\* invalidErrResponse.
invalidErrResponse(errStr) ==
    [Valid |-> FALSE, Warning |-> <<>>, Error |-> <<errStr>>, Annotation |-> {}]

\* The category check of Validate.
categoryMessage(got) ==
    Layer("failed to perform validation, expected category %q to be %q",
          <<got, jiraCategory>>)

\* The message of Validate for an input fault found by the remote.
invalidJustificationMessage(value) ==
    Layer("invalid jira justification %q, ensure you input a valid jira id for an open issue",
          <<Text(value)>>)

\* ValidateLocal with the two checks in the other order.
ValidateLocal_EmptyFirst(r) ==
    IF r.Value = <<>>
        THEN <<Returns(<<invalidErrResponse(Layer("empty justification value", <<>>))>>,
                       Nil)>>
    ELSE IF r.Category # jiraCategory
        THEN <<Returns(<<invalidErrResponse(categoryMessage(r.Category))>>, Nil)>>
    ELSE <<>>

\* ValidateLocal without the check of the value.
ValidateLocal_NoEmptyCheck(r) ==
    IF r.Category # jiraCategory
        THEN <<Returns(<<invalidErrResponse(categoryMessage(r.Category))>>, Nil)>>
    ELSE <<>>

\* Validate up to its call of validateWithJiraEndpoint: <<outcome>> when the
\* request is rejected locally, <<>> when the remote is to be asked.
ValidateLocal(r) ==
    IF r.Category # jiraCategory
        THEN <<Returns(<<invalidErrResponse(categoryMessage(r.Category))>>, Nil)>>
    ELSE IF r.Value = <<>>
        THEN <<Returns(<<invalidErrResponse(Layer("empty justification value", <<>>))>>,
                       Nil)>>
    ELSE <<>>

\* validateWithJiraEndpoint that reports "no match" without the sentinel,
\* as a fault of the backend.
validateWithJiraEndpoint_NoMatchFatal(justificationValue, mi) ==
    IF mi.err # Nil
        THEN [match |-> <<>>, panicked |-> FALSE,
              err |-> Errorf("failed to match justification %q with jira issue",
                             <<Text(justificationValue)>>, mi.err)]
    ELSE LET Matches == mi.result[1].Matches IN
    IF Len(Matches) = 0
        THEN [match |-> <<>>, panicked |-> FALSE,
              err |-> Errorf("no matched jira issue for justification %q",
                             <<Text(justificationValue)>>, Nil)]
    ELSE IF Matches[1].null
        THEN [match |-> <<>>, panicked |-> TRUE, err |-> Nil]
    ELSE IF Len(Matches[1].matchedIssues) = 0
        THEN [match |-> <<>>, panicked |-> FALSE,
              err |-> Errorf("no matched jira issue for justification %q",
                             <<Text(justificationValue)>>, Nil)]
    ELSE IF Len(Matches[1].matchedIssues) > 1
        THEN [match |-> <<>>, panicked |-> FALSE,
              err |-> Errorf("ambiguous justification %q, multiple matching jira issues are found %v",
                             <<Text(justificationValue),
                               FormatInts(Matches[1].matchedIssues)>>,
                             errInvalidJustification)]
    ELSE [match |-> <<Matches[1]>>, panicked |-> FALSE, err |-> Nil]

\* validateWithJiraEndpoint that takes a result of more than one Match for a
\* fault of the backend.
validateWithJiraEndpoint_OneMatchOnly(justificationValue, mi) ==
    IF mi.err # Nil
        THEN [match |-> <<>>, panicked |-> FALSE,
              err |-> Errorf("failed to match justification %q with jira issue",
                             <<Text(justificationValue)>>, mi.err)]
    ELSE LET Matches == mi.result[1].Matches IN
    IF Len(Matches) = 0
        THEN [match |-> <<>>, panicked |-> FALSE,
              err |-> Errorf("no matched jira issue for justification %q",
                             <<Text(justificationValue)>>, errInvalidJustification)]
    ELSE IF Len(Matches) > 1
        THEN [match |-> <<>>, panicked |-> FALSE,
              err |-> Errorf("unexpected number of matches for justification %q",
                             <<Text(justificationValue)>>, Nil)]
    ELSE IF Matches[1].null
        THEN [match |-> <<>>, panicked |-> TRUE, err |-> Nil]
    ELSE IF Len(Matches[1].matchedIssues) = 0
        THEN [match |-> <<>>, panicked |-> FALSE,
              err |-> Errorf("no matched jira issue for justification %q",
                             <<Text(justificationValue)>>, errInvalidJustification)]
    ELSE IF Len(Matches[1].matchedIssues) > 1
        THEN [match |-> <<>>, panicked |-> FALSE,
              err |-> Errorf("ambiguous justification %q, multiple matching jira issues are found %v",
                             <<Text(justificationValue),
                               FormatInts(Matches[1].matchedIssues)>>,
                             errInvalidJustification)]
    ELSE [match |-> <<Matches[1]>>, panicked |-> FALSE, err |-> Nil]

\* validateWithJiraEndpoint without the check for several matches: the
\* first of them is taken.
validateWithJiraEndpoint_FirstOfMany(justificationValue, mi) ==
    IF mi.err # Nil
        THEN [match |-> <<>>, panicked |-> FALSE,
              err |-> Errorf("failed to match justification %q with jira issue",
                             <<Text(justificationValue)>>, mi.err)]
    ELSE LET Matches == mi.result[1].Matches IN
    IF Len(Matches) = 0
        THEN [match |-> <<>>, panicked |-> FALSE,
              err |-> Errorf("no matched jira issue for justification %q",
                             <<Text(justificationValue)>>, errInvalidJustification)]
    ELSE IF Matches[1].null
        THEN [match |-> <<>>, panicked |-> TRUE, err |-> Nil]
    ELSE IF Len(Matches[1].matchedIssues) = 0
        THEN [match |-> <<>>, panicked |-> FALSE,
              err |-> Errorf("no matched jira issue for justification %q",
                             <<Text(justificationValue)>>, errInvalidJustification)]
    ELSE [match |-> <<Matches[1]>>, panicked |-> FALSE, err |-> Nil]

\* JiraPlugin.validateWithJiraEndpoint from the return of MatchIssue on.
\* Matches[0] is dereferenced without a nil check.
validateWithJiraEndpoint(justificationValue, mi) ==
    IF mi.err # Nil
        THEN [match |-> <<>>, panicked |-> FALSE,
              err |-> Errorf("failed to match justification %q with jira issue",
                             <<Text(justificationValue)>>, mi.err)]
    ELSE LET Matches == mi.result[1].Matches IN
    IF Len(Matches) = 0
        THEN [match |-> <<>>, panicked |-> FALSE,
              err |-> Errorf("no matched jira issue for justification %q",
                             <<Text(justificationValue)>>, errInvalidJustification)]
    ELSE IF Matches[1].null
        THEN [match |-> <<>>, panicked |-> TRUE, err |-> Nil]
    ELSE IF Len(Matches[1].matchedIssues) = 0
        THEN [match |-> <<>>, panicked |-> FALSE,
              err |-> Errorf("no matched jira issue for justification %q",
                             <<Text(justificationValue)>>, errInvalidJustification)]
    ELSE IF Len(Matches[1].matchedIssues) > 1
        THEN [match |-> <<>>, panicked |-> FALSE,
              err |-> Errorf("ambiguous justification %q, multiple matching jira issues are found %v",
                             <<Text(justificationValue),
                               FormatInts(Matches[1].matchedIssues)>>,
                             errInvalidJustification)]
    ELSE [match |-> <<Matches[1]>>, panicked |-> FALSE, err |-> Nil]

\* ValidateResult that drops the error of url.JoinPath and answers with the
\* URL it got.
ValidateResult_IgnoreURLErr(issueBaseURL, value, vr) ==
    IF vr.panicked THEN Panics
    ELSE IF vr.err # Nil
        THEN IF ErrorsIs(vr.err, errInvalidJustification)
            THEN Returns(<<invalidErrResponse(invalidJustificationMessage(value))>>, Nil)
            ELSE Returns(<<>>, <<internalErr(value)>>)
    ELSE LET issueID == Itoa(vr.match[1].matchedIssues[1])
             issueURL == JoinPath(issueBaseURL, <<"browse">> \o value) IN
        Returns(<<[Valid |-> TRUE,
                   Warning |-> vr.match[1].errors,
                   Error |-> <<>>,
                   Annotation |-> {<<jiraIssueID, issueID>>,
                                   <<jiraIssueURL, issueURL.url>>}]>>,
                Nil)

\* ValidateResult whose fatal error carries the error it was caused by.
ValidateResult_LeakCause(issueBaseURL, value, vr) ==
    IF vr.panicked THEN Panics
    ELSE IF vr.err # Nil
        THEN IF ErrorsIs(vr.err, errInvalidJustification)
            THEN Returns(<<invalidErrResponse(invalidJustificationMessage(value))>>, Nil)
            ELSE Returns(<<>>, <<[code |-> "Internal",
                                  msg |-> Layer("unable to validate jira issue %q: %v",
                                                <<Text(value), vr.err>>)]>>)
    ELSE LET issueID == Itoa(vr.match[1].matchedIssues[1])
             issueURL == JoinPath(issueBaseURL, <<"browse">> \o value) IN
        IF issueURL.err # Nil
            THEN Returns(<<>>, <<internalErr(value)>>)
            ELSE Returns(<<[Valid |-> TRUE,
                            Warning |-> vr.match[1].errors,
                            Error |-> <<>>,
                            Annotation |-> {<<jiraIssueID, issueID>>,
                                            <<jiraIssueURL, issueURL.url>>}]>>,
                         Nil)

\* ValidateResult that builds the URL without the "browse" element.
ValidateResult_NoBrowse(issueBaseURL, value, vr) ==
    IF vr.panicked THEN Panics
    ELSE IF vr.err # Nil
        THEN IF ErrorsIs(vr.err, errInvalidJustification)
            THEN Returns(<<invalidErrResponse(invalidJustificationMessage(value))>>, Nil)
            ELSE Returns(<<>>, <<internalErr(value)>>)
    ELSE LET issueID == Itoa(vr.match[1].matchedIssues[1])
             issueURL == JoinPath(issueBaseURL, value) IN
        IF issueURL.err # Nil
            THEN Returns(<<>>, <<internalErr(value)>>)
            ELSE Returns(<<[Valid |-> TRUE,
                            Warning |-> vr.match[1].errors,
                            Error |-> <<>>,
                            Annotation |-> {<<jiraIssueID, issueID>>,
                                            <<jiraIssueURL, issueURL.url>>}]>>,
                         Nil)

\* Validate from the return of validateWithJiraEndpoint on.
ValidateResult(issueBaseURL, value, vr) ==
    IF vr.panicked THEN Panics
    ELSE IF vr.err # Nil
        THEN IF ErrorsIs(vr.err, errInvalidJustification)
            THEN Returns(<<invalidErrResponse(invalidJustificationMessage(value))>>, Nil)
            ELSE Returns(<<>>, <<internalErr(value)>>)
    ELSE LET issueID == Itoa(vr.match[1].matchedIssues[1])
             issueURL == JoinPath(issueBaseURL, <<"browse">> \o value) IN
        IF issueURL.err # Nil
            THEN Returns(<<>>, <<internalErr(value)>>)
            ELSE Returns(<<[Valid |-> TRUE,
                            Warning |-> vr.match[1].errors,
                            Error |-> <<>>,
                            Annotation |-> {<<jiraIssueID, issueID>>,
                                            <<jiraIssueURL, issueURL.url>>}]>>,
                         Nil)

(***************************************************************************)
(* Inputs and configurations.                                              *)
(***************************************************************************)
Calls == 1..NumCalls

Categories == {"jira", "github"}

\* Justification values: empty, a plain key, and a value with path elements
\* that path cleaning rewrites.
Values == {<<>>, <<"ABCD">>, <<"ABCD", "..", "ZZ-9">>}

Requests == [Category : Categories, Value : Values]
NoRequest == [Category |-> "", Value |-> <<>>]

\* Browse bases: nothing checks that the configured string parses as a URL.
IssueBaseURLs ==
    {[parses |-> TRUE, origin |-> "https://example.atlassian.net", path |-> <<>>],
     [parses |-> TRUE, origin |-> "https://example.atlassian.net", path |-> <<"jira">>],
     [parses |-> FALSE, origin |-> "", path |-> <<>>]}

\* The JiraPlugin built by NewJiraPlugin.
Plugins ==
    [issueBaseURL : IssueBaseURLs,
     uiData : [DisplayName : {"Jira Issue Key", "Ticket"},
               Hint : {"Jira Issue Key under JVS project"}]]

\* The Validator built by NewValidator: its base URL has parsed.
Validators ==
    [baseURL : {[parses |-> TRUE, origin |-> "https://example.atlassian.net",
                 path |-> <<"rest", "api", "3">>]},
     jql : {"status NOT IN (Done)"},
     account : {"test@test.com"},
     apiToken : {"secrets"}]

(***************************************************************************)
(* The configuration (config.go).                                          *)
(***************************************************************************)
\* A PluginConfig field is "" when unset; ToFlags gives the display name a
\* default and the other fields none, and a flag or an environment variable
\* can set any of them to "".
PluginConfigs ==
    [JIRAEndpoint : {"", "https://example.atlassian.net/rest/api/3"},
     Jql : {"", "status NOT IN (Done)"},
     JIRAAccount : {"", "test@test.com"},
     APITokenSecretID : {"", "projects/123456/secrets/api-token/versions/4"},
     DisplayName : {"", "Jira Issue Key"},
     Hint : {"", "Jira Issue Key under JVS project"}]

\* errors.Join(merr, fmt.Errorf(message)) when the field is empty.
JoinIfEmpty(merr, field, message) ==
    IF field = "" THEN ErrorsJoin(merr, <<Layer(message, <<>>)>>) ELSE merr

\* PluginConfig.Validate without the check of the hint.
PluginConfigValidate_NoHint(c) ==
    JoinIfEmpty(
        JoinIfEmpty(
            JoinIfEmpty(
                JoinIfEmpty(Nil, c.JIRAEndpoint, "empty JIRA_PLUGIN_ENDPOINT"),
                c.Jql, "empty JIRA_PLUGIN_JQL"),
            c.JIRAAccount, "empty JIRA_PLUGIN_ACCOUNT"),
        c.APITokenSecretID, "empty JIRA_PLUGIN_API_TOKEN_SECRET_ID")

\* PluginConfig.Validate: the joined errors of its five checks, nil when
\* every one passes.
PluginConfigValidate(c) ==
    JoinIfEmpty(
        JoinIfEmpty(
            JoinIfEmpty(
                JoinIfEmpty(
                    JoinIfEmpty(Nil, c.JIRAEndpoint, "empty JIRA_PLUGIN_ENDPOINT"),
                    c.Jql, "empty JIRA_PLUGIN_JQL"),
                c.JIRAAccount, "empty JIRA_PLUGIN_ACCOUNT"),
            c.APITokenSecretID, "empty JIRA_PLUGIN_API_TOKEN_SECRET_ID"),
        c.Hint, "empty JIRA_PLUGIN_HINT")

\* The configuration of the plugins that serve calls.
ServingConfig ==
    [JIRAEndpoint |-> "https://example.atlassian.net/rest/api/3",
     Jql |-> "status NOT IN (Done)",
     JIRAAccount |-> "test@test.com",
     APITokenSecretID |-> "projects/123456/secrets/api-token/versions/4",
     DisplayName |-> "Jira Issue Key",
     Hint |-> "Jira Issue Key under JVS project"]

\* The configurations of the plugins that serve calls: the display name is
\* the default of ToFlags or one that a flag has set.
ServingConfigs == {ServingConfig, [ServingConfig EXCEPT !.DisplayName = "Ticket"]}

\* The UIData that NewJiraPlugin builds from the configuration.
UIData(c) == [DisplayName |-> c.DisplayName, Hint |-> c.Hint]

(***************************************************************************)
(* Startup (server.go, NewJiraPlugin, NewValidator).                       *)
(***************************************************************************)
\* The PluginConfig of Flags, before Parse has filled it.
ZeroConfig ==
    [JIRAEndpoint |-> "", Jql |-> "", JIRAAccount |-> "", APITokenSecretID |-> "",
     DisplayName |-> "", Hint |-> "", IssueBaseURL |-> ""]

\* An endpoint that is not empty and does not parse as a URL.
BadEndpoint == "https://example.atlassian.net/%zz"

\* What the flags and the environment can put into the PluginConfig.
StartupConfigs ==
    [JIRAEndpoint : {"", "https://example.atlassian.net/rest/api/3", BadEndpoint},
     Jql : {"", "status NOT IN (Done)"},
     JIRAAccount : {"test@test.com"},
     APITokenSecretID : {"", "projects/123456/secrets/api-token/versions/4"},
     DisplayName : {"Jira Issue Key"},
     Hint : {"", "Jira Issue Key under JVS project"},
     IssueBaseURL : {"https://example.atlassian.net"}]

\* The command line: whether the flags parse, the arguments left over after
\* the flags, and the configuration the flags and the environment describe.
StartupInputs ==
    [parses : BOOLEAN, rest : {<<>>, <<"extra">>}, cfg : StartupConfigs]

\* What secretVersion can return: the client cannot be set up, the secret
\* version cannot be accessed, or the payload.
SecretAnswers ==
    {[data |-> "", err |-> Errorf("failed to set up secret manager client", <<>>,
                                  <<Layer("no credentials", <<>>)>>)],
     [data |-> "", err |-> Errorf("failed to access API token from secret manager",
                                  <<>>, <<Layer("permission denied", <<>>)>>)],
     [data |-> "secrets", err |-> Nil]}

\* url.Parse of the strings of the configurations.
URLParse(str) ==
    IF str = "https://example.atlassian.net/rest/api/3"
        THEN [u |-> [parses |-> TRUE, origin |-> "https://example.atlassian.net",
                     path |-> <<"rest", "api", "3">>],
              err |-> Nil]
    ELSE IF str = "https://example.atlassian.net"
        THEN [u |-> [parses |-> TRUE, origin |-> "https://example.atlassian.net",
                     path |-> <<>>],
              err |-> Nil]
    ELSE IF str = ""
        THEN [u |-> [parses |-> TRUE, origin |-> "", path |-> <<>>], err |-> Nil]
    ELSE [u |-> [parses |-> FALSE, origin |-> "", path |-> <<>>],
          err |-> <<Layer("invalid URL escape", <<>>)>>]

\* NewValidator: <<the Validator>> and nil, or nil and the parse error.
NewValidator(baseURL, jql, account, apiToken) ==
    LET p == URLParse(baseURL) IN
    IF p.err # Nil
        THEN [v |-> <<>>,
              err |-> Errorf("failed to parse baseURL %s", <<baseURL>>, p.err)]
        ELSE [v |-> <<[baseURL |-> p.u, jql |-> jql, account |-> account,
                       apiToken |-> apiToken]>>,
              err |-> Nil]

\* NewJiraPlugin from the return of NewValidator on.
NewJiraPlugin(c, nv) ==
    IF nv.err # Nil
        THEN [p |-> <<>>, err |-> Errorf("failed to instantiate validator", <<>>, nv.err)]
        ELSE [p |-> <<[validator |-> nv.v[1],
                       uiData |-> [DisplayName |-> c.DisplayName, Hint |-> c.Hint],
                       issueBaseURL |-> URLParse(c.IssueBaseURL).u]>>,
              err |-> Nil]

\* No run of the command: the plugin was built directly.
NoStartup ==
    [step |-> "none", input |-> [parses |-> TRUE, rest |-> <<>>, cfg |-> ZeroConfig],
     trace |-> <<>>, secret |-> <<>>, validator |-> <<>>, plugin |-> <<>>,
     err |-> Nil, served |-> FALSE]

(***************************************************************************)
(* State.                                                                  *)
(***************************************************************************)
VARIABLES
    cfg,        \* the PluginConfig
    validated,  \* <<>> before cfg.Validate() has run, then <<its error>>
    plugin,     \* the JiraPlugin: issueBaseURL, uiData
    validator,  \* the Validator: baseURL, jql, account, apiToken
    pc,         \* per call: "idle", "lookup", "match" or "done"
    req,        \* per call: the ValidateJustificationRequest
    issue,      \* per call: the jiraIssue its lookup resolved (<<>>: none yet)
    sent,       \* per call: the HTTP requests it has issued, in order
    recv,       \* per call: the answers to those requests, in order
    read,       \* per call: the bytes read from the body of each answer
    earlier,    \* the values that calls returned so far have found valid
    ui,         \* <<>>, or <<what the latest GetUIData call returned>>
    boot,       \* the run of ServerCommand.Run: its step, inputs and results
    cancelled,  \* per call: "" or the step at which its context was cancelled
    out         \* per call: what Validate returned

vars ==
    <<cfg, validated, plugin, validator, pc, req, issue, sent, recv, read,
      earlier, ui, boot, cancelled, out>>

Init ==
    /\ cfg = ServingConfig
    /\ validated = <<PluginConfigValidate(cfg)>>
    /\ plugin \in {p \in Plugins : p.uiData = UIData(cfg)}
    /\ validator \in Validators
    /\ pc = [c \in Calls |-> "idle"]
    /\ req = [c \in Calls |-> NoRequest]
    /\ issue = [c \in Calls |-> <<>>]
    /\ sent = [c \in Calls |-> <<>>]
    /\ recv = [c \in Calls |-> <<>>]
    /\ read = [c \in Calls |-> <<>>]
    /\ earlier = {}
    /\ ui = <<>>
    /\ boot = NoStartup
    /\ cancelled = [c \in Calls |-> ""]
    /\ out = [c \in Calls |-> NoOutcome]

\* The context of call c has been cancelled.
Cancelled(c) == cancelled[c] # ""

\* The error of http.Client.Do on a cancelled context.
ContextCanceled == <<Layer("context canceled", <<>>)>>

\* DoAnswers of requests that are built without the context of the call.
DoAnswers_IgnoreContext(c, answers) == answers

\* What http.Client.Do can return to call c, whose requests carry the
\* context of the call: once the context is cancelled, only its error.
DoAnswers(c, answers) ==
    IF Cancelled(c)
        THEN {a \in answers : a.transport = ContextCanceled}
        ELSE answers

\* ValidateCall of a plugin that remembers the values it has found valid
\* and answers for them without asking the remote again.
ValidateCall_Cached(c, requests) ==
    /\ pc[c] = "idle"
    /\ \E r \in requests :
        /\ req' = [req EXCEPT ![c] = r]
        /\ IF ValidateLocal(r) # <<>>
            THEN /\ out' = [out EXCEPT ![c] = ValidateLocal(r)[1]]
                 /\ pc' = [pc EXCEPT ![c] = "done"]
                 /\ sent' = [sent EXCEPT ![c] = <<>>]
            ELSE IF r.Value \in earlier
            THEN /\ out' = [out EXCEPT ![c] =
                        Returns(<<[Valid |-> TRUE, Warning |-> <<>>, Error |-> <<>>,
                                   Annotation |-> {}]>>, Nil)]
                 /\ pc' = [pc EXCEPT ![c] = "done"]
                 /\ sent' = [sent EXCEPT ![c] = <<>>]
            ELSE /\ out' = [out EXCEPT ![c] = NoOutcome]
                 /\ pc' = [pc EXCEPT ![c] = "lookup"]
                 /\ sent' = [sent EXCEPT ![c] = <<IssueRequest(validator, r.Value)>>]
    /\ issue' = [issue EXCEPT ![c] = <<>>]
    /\ recv' = [recv EXCEPT ![c] = <<>>]
    /\ read' = [read EXCEPT ![c] = <<>>]
    /\ cancelled' = [cancelled EXCEPT ![c] = ""]
    /\ UNCHANGED <<cfg, validated, boot, ui, earlier, plugin, validator>>

\* A caller invokes Validate with a request of requests: the local checks,
\* then the lookup GET goes out.
ValidateCall(c, requests) ==
    /\ pc[c] = "idle"
    /\ \E r \in requests :
        /\ req' = [req EXCEPT ![c] = r]
        /\ IF ValidateLocal(r) # <<>>
            THEN /\ out' = [out EXCEPT ![c] = ValidateLocal(r)[1]]
                 /\ pc' = [pc EXCEPT ![c] = "done"]
                 /\ sent' = [sent EXCEPT ![c] = <<>>]
            ELSE /\ out' = [out EXCEPT ![c] = NoOutcome]
                 /\ pc' = [pc EXCEPT ![c] = "lookup"]
                 /\ sent' = [sent EXCEPT ![c] = <<IssueRequest(validator, r.Value)>>]
    /\ issue' = [issue EXCEPT ![c] = <<>>]
    /\ recv' = [recv EXCEPT ![c] = <<>>]
    /\ read' = [read EXCEPT ![c] = <<>>]
    /\ cancelled' = [cancelled EXCEPT ![c] = ""]
    /\ UNCHANGED <<cfg, validated, boot, ui, earlier, plugin, validator>>

\* LookupResponse that issues the lookup GET once more when the answer to
\* the first one is a failure.
LookupResponse_Retry(c, answers) ==
    /\ pc[c] = "lookup"
    /\ \E ans \in DoAnswers(c, answers) :
        /\ recv' = [recv EXCEPT ![c] = Append(@, ans)]
        /\ read' = [read EXCEPT ![c] = Append(@, jiraIssue(ans).read)]
        /\ LET ji == jiraIssue(ans) IN
            IF ji.err # Nil /\ Len(sent[c]) = 1
                THEN /\ sent' = [sent EXCEPT ![c] =
                            Append(@, IssueRequest(validator, req[c].Value))]
                     /\ UNCHANGED <<issue, out, pc>>
            ELSE IF ji.err # Nil
                THEN /\ out' = [out EXCEPT ![c] =
                            ValidateResult(plugin.issueBaseURL, req[c].Value,
                                validateWithJiraEndpoint(req[c].Value,
                                    MatchIssueLookupFailed(req[c].Value, ji.err)))]
                     /\ pc' = [pc EXCEPT ![c] = "done"]
                     /\ UNCHANGED <<issue, sent>>
                ELSE /\ issue' = [issue EXCEPT ![c] = ji.issue]
                     /\ sent' = [sent EXCEPT ![c] =
                            Append(@, MatchRequest(validator, ji.issue[1]))]
                     /\ pc' = [pc EXCEPT ![c] = "match"]
                     /\ UNCHANGED out
    /\ UNCHANGED <<cfg, validated, boot, ui, earlier, plugin, validator, req, cancelled>>

\* LookupResponse of a Validator that keeps the resolved issue in a field
\* shared by all calls: the POST carries the issue that another call in
\* flight has stored, when there is one.
LookupResponse_SharedIssue(c, answers) ==
    /\ pc[c] = "lookup"
    /\ \E ans \in DoAnswers(c, answers) :
        /\ recv' = [recv EXCEPT ![c] = Append(@, ans)]
        /\ read' = [read EXCEPT ![c] = Append(@, jiraIssue(ans).read)]
        /\ LET ji == jiraIssue(ans) IN
            IF ji.err # Nil
                THEN /\ out' = [out EXCEPT ![c] =
                            ValidateResult(plugin.issueBaseURL, req[c].Value,
                                validateWithJiraEndpoint(req[c].Value,
                                    MatchIssueLookupFailed(req[c].Value, ji.err)))]
                     /\ pc' = [pc EXCEPT ![c] = "done"]
                     /\ UNCHANGED <<issue, sent>>
                ELSE /\ issue' = [issue EXCEPT ![c] = ji.issue]
                     /\ sent' = [sent EXCEPT ![c] =
                            Append(@, MatchRequest(validator,
                                IF \E d \in Calls : issue[d] # <<>>
                                    THEN issue[CHOOSE d \in Calls : issue[d] # <<>>][1]
                                    ELSE ji.issue[1]))]
                     /\ pc' = [pc EXCEPT ![c] = "match"]
                     /\ UNCHANGED out
    /\ UNCHANGED <<cfg, validated, boot, ui, earlier, plugin, validator, req, cancelled>>

\* The lookup GET is answered with one of answers: on failure MatchIssue,
\* validateWithJiraEndpoint and Validate return; on success the match POST
\* goes out.
LookupResponse(c, answers) ==
    /\ pc[c] = "lookup"
    /\ \E ans \in DoAnswers(c, answers) :
        /\ recv' = [recv EXCEPT ![c] = Append(@, ans)]
        /\ read' = [read EXCEPT ![c] = Append(@, jiraIssue(ans).read)]
        /\ LET ji == jiraIssue(ans) IN
            IF ji.err # Nil
                THEN /\ out' = [out EXCEPT ![c] =
                            ValidateResult(plugin.issueBaseURL, req[c].Value,
                                validateWithJiraEndpoint(req[c].Value,
                                    MatchIssueLookupFailed(req[c].Value, ji.err)))]
                     /\ pc' = [pc EXCEPT ![c] = "done"]
                     /\ UNCHANGED <<issue, sent>>
                ELSE /\ issue' = [issue EXCEPT ![c] = ji.issue]
                     /\ sent' = [sent EXCEPT ![c] =
                            Append(@, MatchRequest(validator, ji.issue[1]))]
                     /\ pc' = [pc EXCEPT ![c] = "match"]
                     /\ UNCHANGED out
    /\ UNCHANGED <<cfg, validated, boot, ui, earlier, plugin, validator, req, cancelled>>

\* MatchResponse of a plugin that compares the matched identifier with the
\* id the lookup resolved and answers invalid when they differ.
MatchResponse_ComparesId(c, answers) ==
    /\ pc[c] = "match"
    /\ \E ans \in DoAnswers(c, answers) :
        /\ recv' = [recv EXCEPT ![c] = Append(@, ans)]
        /\ read' = [read EXCEPT ![c] = Append(@, matchJQL(ans).read)]
        /\ LET vr == validateWithJiraEndpoint(req[c].Value,
                        MatchIssue(req[c].Value, matchJQL(ans))) IN
            out' = [out EXCEPT ![c] =
                IF /\ ~vr.panicked /\ vr.err = Nil
                   /\ Itoa(vr.match[1].matchedIssues[1]) # issue[c][1].ID
                    THEN Returns(<<invalidErrResponse(
                                    invalidJustificationMessage(req[c].Value))>>, Nil)
                    ELSE ValidateResult(plugin.issueBaseURL, req[c].Value, vr)]
    /\ pc' = [pc EXCEPT ![c] = "done"]
    /\ UNCHANGED <<cfg, validated, boot, ui, earlier, plugin, validator, req, issue, sent, cancelled>>

\* The match POST is answered with one of answers: MatchIssue,
\* validateWithJiraEndpoint and Validate run to the end.
MatchResponse(c, answers) ==
    /\ pc[c] = "match"
    /\ \E ans \in DoAnswers(c, answers) :
        /\ recv' = [recv EXCEPT ![c] = Append(@, ans)]
        /\ read' = [read EXCEPT ![c] = Append(@, matchJQL(ans).read)]
        /\ out' = [out EXCEPT ![c] =
                ValidateResult(plugin.issueBaseURL, req[c].Value,
                    validateWithJiraEndpoint(req[c].Value,
                        MatchIssue(req[c].Value, matchJQL(ans))))]
    /\ pc' = [pc EXCEPT ![c] = "done"]
    /\ UNCHANGED <<cfg, validated, boot, ui, earlier, plugin, validator, req, issue, sent, cancelled>>

\* The caller cancels the context of call c while an outbound call of it is
\* in flight.
Cancel(c) ==
    /\ pc[c] \in {"lookup", "match"}
    /\ ~Cancelled(c)
    /\ cancelled' = [cancelled EXCEPT ![c] = pc[c]]
    /\ UNCHANGED <<cfg, validated, boot, ui, earlier, plugin, validator, pc, req, issue, sent, recv,
                   read, out>>

\* GetUIData that answers with the default display name of ToFlags.
GetUIData_Default ==
    /\ ui' = <<[data |-> [DisplayName |-> "Jira Issue Key",
                           Hint |-> plugin.uiData.Hint],
                 err |-> Nil]>>
    /\ UNCHANGED <<cfg, validated, boot, earlier, plugin, validator, pc, req, issue,
                   sent, recv, read, cancelled, out>>

\* JiraPlugin.GetUIData: j.uiData and a nil error, at any time.
GetUIData ==
    /\ ui' = <<[data |-> plugin.uiData, err |-> Nil]>>
    /\ UNCHANGED <<cfg, validated, boot, earlier, plugin, validator, pc, req, issue,
                   sent, recv, read, cancelled, out>>

\* The caller has taken the result; the slot is free for another call.
Finish(c) ==
    /\ pc[c] = "done"
    /\ pc' = [pc EXCEPT ![c] = "idle"]
    /\ req' = [req EXCEPT ![c] = NoRequest]
    /\ issue' = [issue EXCEPT ![c] = <<>>]
    /\ sent' = [sent EXCEPT ![c] = <<>>]
    /\ recv' = [recv EXCEPT ![c] = <<>>]
    /\ read' = [read EXCEPT ![c] = <<>>]
    /\ cancelled' = [cancelled EXCEPT ![c] = ""]
    /\ out' = [out EXCEPT ![c] = NoOutcome]
    /\ earlier' = IF out[c].resp # <<>> /\ out[c].resp[1].Valid
                    THEN earlier \cup {req[c].Value}
                    ELSE earlier
    /\ UNCHANGED <<cfg, validated, boot, ui, plugin, validator>>

\* One caller: its calls are made one after another, in the first slot.
Sequential(c) == \A d \in Calls : c <= d

Next ==
    \E c \in Calls :
        \/ Sequential(c) /\ ValidateCall(c, Requests)
        \/ LookupResponse(c, LookupAnswers)
        \/ MatchResponse(c, MatchAnswers)
        \/ Cancel(c)
        \/ Finish(c)

\* Validate calls made one after another, with every answer of the remote.
Spec == Init /\ [][Next]_vars

\* Spec with outbound calls that end: http.Client.Do returns an answer, a
\* failure or, after the Timeout of the client, a timeout.
SpecLive ==
    /\ Init /\ [][Next]_vars
    /\ \A c \in Calls :
        /\ WF_vars(LookupResponse(c, LookupAnswers))
        /\ WF_vars(MatchResponse(c, MatchAnswers))

\* Before a plugin is built: any configuration, not yet validated.
InitConfig ==
    /\ cfg \in PluginConfigs
    /\ validated = <<>>
    /\ plugin \in {p \in Plugins : /\ p.issueBaseURL.parses
                                   /\ p.issueBaseURL.path = <<>>
                                   /\ p.uiData.DisplayName = "Jira Issue Key"}
    /\ validator \in Validators
    /\ pc = [c \in Calls |-> "idle"]
    /\ req = [c \in Calls |-> NoRequest]
    /\ issue = [c \in Calls |-> <<>>]
    /\ sent = [c \in Calls |-> <<>>]
    /\ recv = [c \in Calls |-> <<>>]
    /\ read = [c \in Calls |-> <<>>]
    /\ earlier = {}
    /\ ui = <<>>
    /\ boot = NoStartup
    /\ cancelled = [c \in Calls |-> ""]
    /\ out = [c \in Calls |-> NoOutcome]

\* cfg.Validate() is called.
ConfigValidate ==
    /\ validated = <<>>
    /\ validated' = <<PluginConfigValidate(cfg)>>
    /\ UNCHANGED <<cfg, boot, ui, earlier, plugin, validator, pc, req, issue, sent, recv, read,
                   cancelled, out>>

NextConfig == ConfigValidate

\* The validation of every configuration.
SpecConfig == InitConfig /\ [][NextConfig]_vars

\* ServerCommand.Run is called with an input: Flags has made the empty
\* PluginConfig.
InitStartup ==
    /\ cfg = ZeroConfig
    /\ validated = <<>>
    /\ boot \in {[NoStartup EXCEPT !.step = "parse", !.input = i] : i \in StartupInputs}
    /\ plugin \in {p \in Plugins : /\ p.issueBaseURL.parses
                                   /\ p.issueBaseURL.path = <<>>
                                   /\ p.uiData.DisplayName = "Jira Issue Key"}
    /\ validator \in Validators
    /\ pc = [c \in Calls |-> "idle"]
    /\ req = [c \in Calls |-> NoRequest]
    /\ issue = [c \in Calls |-> <<>>]
    /\ sent = [c \in Calls |-> <<>>]
    /\ recv = [c \in Calls |-> <<>>]
    /\ read = [c \in Calls |-> <<>>]
    /\ earlier = {}
    /\ ui = <<>>
    /\ cancelled = [c \in Calls |-> ""]
    /\ out = [c \in Calls |-> NoOutcome]

\* What no step of the startup touches.
StartupFrame ==
    UNCHANGED <<plugin, validator, pc, req, issue, sent, recv, read, earlier, ui,
                cancelled, out>>

\* The startup step s ends RunUnstarted with error e.
Fails(s, e) ==
    boot' = [boot EXCEPT !.step = "failed", !.trace = Append(@, s), !.err = e]

\* f.Parse(args): the flags and the environment fill the PluginConfig.
ParseFlags ==
    /\ boot.step = "parse"
    /\ IF ~boot.input.parses
        THEN /\ Fails("parse", Errorf("failed to parse flags", <<>>,
                                       <<Layer("flag provided but not defined", <<>>)>>))
             /\ UNCHANGED cfg
        ELSE /\ boot' = [boot EXCEPT !.step = "args", !.trace = Append(@, "parse")]
             /\ cfg' = boot.input.cfg
    /\ UNCHANGED validated
    /\ StartupFrame

\* The arguments that the flags left over are rejected.
CheckArgs ==
    /\ boot.step = "args"
    /\ IF Len(boot.input.rest) > 0
        THEN Fails("args", <<Layer("unexpected arguments: %q", boot.input.rest)>>)
        ELSE boot' = [boot EXCEPT !.step = "validate", !.trace = Append(@, "args")]
    /\ UNCHANGED <<cfg, validated>>
    /\ StartupFrame

\* StartupValidate that logs the error of cfg.Validate() and goes on.
StartupValidate_GoesOn ==
    /\ boot.step = "validate"
    /\ validated' = <<PluginConfigValidate(cfg)>>
    /\ boot' = [boot EXCEPT !.step = "secret", !.trace = Append(@, "validate")]
    /\ UNCHANGED cfg
    /\ StartupFrame

\* c.cfg.Validate() in RunUnstarted.
StartupValidate ==
    /\ boot.step = "validate"
    /\ validated' = <<PluginConfigValidate(cfg)>>
    /\ IF PluginConfigValidate(cfg) # Nil
        THEN Fails("validate", Errorf("invalid configuration", <<>>,
                                      PluginConfigValidate(cfg)))
        ELSE boot' = [boot EXCEPT !.step = "secret", !.trace = Append(@, "validate")]
    /\ UNCHANGED cfg
    /\ StartupFrame

\* NewJiraPlugin calls secretVersion(ctx, cfg.APITokenSecretID): the secret
\* store answers.
FetchSecret ==
    /\ boot.step = "secret"
    /\ \E ans \in SecretAnswers :
        IF ans.err # Nil
            THEN boot' = [boot EXCEPT
                    !.step = "failed", !.trace = Append(@, "secret"),
                    !.secret = <<[name |-> cfg.APITokenSecretID, ans |-> ans]>>,
                    !.err = Errorf("failed to instantiate jira plugin", <<>>,
                                Errorf("failed to fetch API token", <<>>, ans.err))]
            ELSE boot' = [boot EXCEPT
                    !.step = "client", !.trace = Append(@, "secret"),
                    !.secret = <<[name |-> cfg.APITokenSecretID, ans |-> ans]>>]
    /\ UNCHANGED <<cfg, validated>>
    /\ StartupFrame

\* NewJiraPlugin calls NewValidator and builds the JiraPlugin; RunUnstarted
\* returns it.
BuildClient ==
    /\ boot.step = "client"
    /\ LET nv == NewValidator(cfg.JIRAEndpoint, cfg.Jql, cfg.JIRAAccount,
                              boot.secret[1].ans.data)
           np == NewJiraPlugin(cfg, nv) IN
        IF np.err # Nil
            THEN boot' = [boot EXCEPT
                    !.step = "failed", !.trace = Append(@, "client"),
                    !.err = Errorf("failed to instantiate jira plugin", <<>>, np.err)]
            ELSE boot' = [boot EXCEPT
                    !.step = "returned", !.trace = Append(@, "client"),
                    !.validator = nv.v, !.plugin = np.p]
    /\ UNCHANGED <<cfg, validated>>
    /\ StartupFrame

\* Run: goplugin.Serve with the plugin that RunUnstarted returned.
Serve ==
    /\ boot.step = "returned"
    /\ boot' = [boot EXCEPT !.step = "serving", !.served = TRUE]
    /\ UNCHANGED <<cfg, validated>>
    /\ StartupFrame

\* Run returns the error of RunUnstarted, wrapped.
RunFails ==
    /\ boot.step = "failed"
    /\ boot' = [boot EXCEPT
            !.step = "exited",
            !.err = Errorf("failed to instantiate jira plugin", <<>>, boot.err)]
    /\ UNCHANGED <<cfg, validated>>
    /\ StartupFrame

NextStartup ==
    \/ ParseFlags
    \/ CheckArgs
    \/ StartupValidate
    \/ FetchSecret
    \/ BuildClient
    \/ Serve
    \/ RunFails

\* One run of the server command from every command line.
SpecStartup == InitStartup /\ [][NextStartup]_vars

\* Requests and answers of calls that run at the same time: a request that
\* is rejected locally and two keys; the two issues, a 404, a 500, a body of
\* the wrong JSON type and a transport failure for the lookup; one match
\* each, no match and a 500 for the match.
ConcurrentRequests ==
    {[Category |-> "github", Value |-> <<"ABCD">>],
     [Category |-> "jira", Value |-> <<"ABCD">>],
     [Category |-> "jira", Value |-> <<"ZZ-9">>]}
ConcurrentLookupAnswers ==
    {[transport |-> <<Layer("connection refused", <<>>)>>, status |-> 0,
      body |-> EmptyBody]}
    \cup {[transport |-> Nil, status |-> st,
            body |-> Sized([form |-> "malformed", id |-> "", key |-> <<>>,
                            matches |-> <<>>], ShortSize)] : st \in {404, 500}}
    \cup {[transport |-> Nil, status |-> 200,
            body |-> Sized([form |-> "array", id |-> "", key |-> <<>>,
                            matches |-> <<>>], ShortSize)]}
    \cup {[transport |-> Nil, status |-> 200,
            body |-> Sized([form |-> "object", id |-> i.id, key |-> i.key,
                            matches |-> <<>>], ShortSize)] :
                i \in {i \in Issues : i.id # ""}}
ConcurrentMatchAnswers ==
    {[transport |-> Nil, status |-> 500,
      body |-> Sized([form |-> "malformed", id |-> "", key |-> <<>>,
                      matches |-> <<>>], ShortSize)]}
    \cup {[transport |-> Nil, status |-> 200,
            body |-> Sized([form |-> "object", id |-> "", key |-> <<>>,
                            matches |-> m], ShortSize)] :
                m \in {<<[null |-> FALSE, matchedIssues |-> <<>>, errors |-> <<>>]>>,
                       <<[null |-> FALSE, matchedIssues |-> <<1234>>, errors |-> <<>>]>>,
                       <<[null |-> FALSE, matchedIssues |-> <<5678>>,
                          errors |-> <<"jql warning">>]>>}}

\* Any number of callers: the steps of their calls interleave freely.
NextConcurrent ==
    \E c \in Calls :
        \/ ValidateCall(c, ConcurrentRequests)
        \/ LookupResponse(c, ConcurrentLookupAnswers)
        \/ MatchResponse(c, ConcurrentMatchAnswers)
        \/ Finish(c)

SpecConcurrent == Init /\ [][NextConcurrent]_vars

\* A plugin built from any of the serving configurations.
InitUI ==
    /\ cfg \in ServingConfigs
    /\ validated = <<PluginConfigValidate(cfg)>>
    /\ plugin \in {p \in Plugins : p.uiData = UIData(cfg)}
    /\ validator \in Validators
    /\ pc = [c \in Calls |-> "idle"]
    /\ req = [c \in Calls |-> NoRequest]
    /\ issue = [c \in Calls |-> <<>>]
    /\ sent = [c \in Calls |-> <<>>]
    /\ recv = [c \in Calls |-> <<>>]
    /\ read = [c \in Calls |-> <<>>]
    /\ earlier = {}
    /\ ui = <<>>
    /\ boot = NoStartup
    /\ cancelled = [c \in Calls |-> ""]
    /\ out = [c \in Calls |-> NoOutcome]

\* The Validate calls of one caller and GetUIData calls in any order, also
\* while a Validate call is in progress.
NextUI ==
    \/ \E c \in Calls :
        \/ Sequential(c) /\ ValidateCall(c, ConcurrentRequests)
        \/ LookupResponse(c, ConcurrentLookupAnswers)
        \/ MatchResponse(c, ConcurrentMatchAnswers)
        \/ Finish(c)
    \/ GetUIData

SpecUI == InitUI /\ [][NextUI]_vars

(***************************************************************************)
(* Properties of Validate.                                                 *)
(***************************************************************************)
\* Call c has returned.
Done(c) == pc[c] = "done"

\* Kinds of answers.
TransportFailed(a) == a.transport # Nil
Status4xx(a) == a.transport = Nil /\ a.status >= 400 /\ a.status < 500
Status5xx(a) == a.transport = Nil /\ a.status >= 500
Undecodable(a) ==
    /\ a.transport = Nil /\ a.status < 400
    /\ \/ a.body.form \in {"malformed", "array"}
       \/ a.body.valueEnd > 4000000
Completed(a) ==
    /\ a.transport = Nil /\ a.status < 400
    /\ a.body.form \in {"object", "null"}
    /\ a.body.valueEnd <= 4000000

\* Both outbound calls of c completed, so MatchIssue succeeded.
MatchSucceeded(c) ==
    Len(recv[c]) = 2 /\ Completed(recv[c][1]) /\ Completed(recv[c][2])

\* The "matches" array of the match response of c.
MatchesOf(c) == recv[c][2].body.matches

\* The first Match of the result of c lists exactly n matched issues.
FirstMatchLists(c, n) ==
    /\ MatchSucceeded(c)
    /\ MatchesOf(c) # <<>>
    /\ ~MatchesOf(c)[1].null
    /\ Len(MatchesOf(c)[1].matchedIssues) = n

\* What c returned.
ReturnedResponse(c) == out[c].resp # <<>> /\ ~out[c].panicked
ReturnedError(c) == out[c].err # <<>> /\ ~out[c].panicked
ValidTrue(c) == ReturnedResponse(c) /\ out[c].resp[1].Valid
ValidFalse(c) == ReturnedResponse(c) /\ ~out[c].resp[1].Valid

\* The response to an input fault found by the remote, for call c.
InvalidJustificationResponse(c) ==
    [Valid |-> FALSE, Warning |-> <<>>, Annotation |-> {},
     Error |-> <<[fmt |-> "invalid jira justification %q, ensure you input a valid jira id for an open issue",
                  args |-> <<Text(req[c].Value)>>]>>]

\* The fatal error of Validate, for call c.
InternalError(c) ==
    [code |-> "Internal",
     msg |-> [fmt |-> "unable to validate jira issue %q",
              args |-> <<Text(req[c].Value)>>]]

\* C1: Validate returns valid=true only if the category is "jira", the value
\* is non-empty, both outbound calls completed with a status below 400 and a
\* decodable body, and the first Match lists exactly one matched issue; in
\* every other case it returns a valid=false response or an error.
C1_ValidOnlyIfMatched ==
    \A c \in Calls : Done(c) =>
        IF ValidTrue(c)
            THEN /\ req[c].Category = "jira"
                 /\ req[c].Value # <<>>
                 /\ FirstMatchLists(c, 1)
            ELSE ValidFalse(c) \/ ReturnedError(c)

\* C2: a request whose category is not "jira", whatever its value, gets a
\* valid=false response with the single message naming the category
\* mismatch, no error, and no network call is made.
C2_WrongCategory ==
    \A c \in Calls : Done(c) /\ req[c].Category # "jira" =>
        /\ out[c].resp =
            <<[Valid |-> FALSE, Warning |-> <<>>, Annotation |-> {},
               Error |-> <<[fmt |-> "failed to perform validation, expected category %q to be %q",
                            args |-> <<req[c].Category, "jira">>]>>]>>
        /\ out[c].err = <<>>
        /\ ~out[c].panicked
        /\ sent[c] = <<>>
        /\ recv[c] = <<>>

C2_Witness ==
    \E c \in Calls : Done(c) /\ req[c].Category = "github" /\ req[c].Value = <<>>

\* C3: a request with category "jira" and an empty value gets a valid=false
\* response with the message "empty justification value", no error, and no
\* network call is made.
C3_EmptyValue ==
    \A c \in Calls : Done(c) /\ req[c].Category = "jira" /\ req[c].Value = <<>> =>
        /\ out[c].resp =
            <<[Valid |-> FALSE, Warning |-> <<>>, Annotation |-> {},
               Error |-> <<[fmt |-> "empty justification value", args |-> <<>>]>>]>>
        /\ out[c].err = <<>>
        /\ ~out[c].panicked
        /\ sent[c] = <<>>
        /\ recv[c] = <<>>

C3_Witness ==
    \E c \in Calls : Done(c) /\ req[c].Category = "jira" /\ req[c].Value = <<>>

\* The valid response of call c for the single matched issue of its result:
\* jira_issue_id is the decimal string of the matched number, jira_issue_url
\* the browse base joined with "browse" and the value of the request.
IsValidResponseFor(c) ==
    /\ out[c].err = <<>>
    /\ ValidTrue(c)
    /\ out[c].resp[1].Error = <<>>
    /\ out[c].resp[1].Annotation =
        {<<"jira_issue_id", ToString(MatchesOf(c)[1].matchedIssues[1])>>,
         <<"jira_issue_url",
           JoinPath(plugin.issueBaseURL, <<"browse">> \o req[c].Value).url>>}
    /\ (MatchesOf(c)[1].matchedIssues[1] = 1234 =>
            <<"jira_issue_id", "1234">> \in out[c].resp[1].Annotation)
    /\ (plugin.issueBaseURL.path = <<>> /\ req[c].Value = <<"ABCD">> =>
            <<"jira_issue_url", "https://example.atlassian.net/browse/ABCD">>
                \in out[c].resp[1].Annotation)

\* C4, as the specification states it: when MatchIssue succeeds and the first Match lists exactly
\* one matched issue m, Validate returns valid=true with no error and the
\* annotations jira_issue_id = decimal m and jira_issue_url = browse base
\* joined with "browse" and the input value.
C4_OneMatchValid ==
    \A c \in Calls : Done(c) /\ FirstMatchLists(c, 1) => IsValidResponseFor(c)

\* C4, with the browse base taken into account: the same, provided the configured browse base parses as a
\* URL; when it does not, Validate returns the internal error and no
\* response.
C4_OneMatchValidIfBaseParses ==
    \A c \in Calls : Done(c) /\ FirstMatchLists(c, 1) =>
        IF plugin.issueBaseURL.parses
            THEN IsValidResponseFor(c)
            ELSE /\ out[c].resp = <<>>
                 /\ out[c].err = <<InternalError(c)>>
                 /\ ~out[c].panicked

C4_Witness ==
    \E c \in Calls :
        /\ Done(c) /\ FirstMatchLists(c, 1) /\ ValidTrue(c)
        /\ req[c].Value = <<"ABCD">>
        /\ recv[c][1].body.key = <<"ZZ-9">>
        /\ MatchesOf(c)[1].matchedIssues = <<5678>>

\* C5: when MatchIssue succeeds and the first Match lists no matched issue,
\* or the result holds no Match at all, Validate returns a valid=false
\* response and no error, and that response is the one returned for the
\* same value when the lookup is answered with a 4xx status.
C5_NoMatchLikeNotFound ==
    \A c \in Calls : Done(c) =>
        /\ (MatchSucceeded(c) /\ MatchesOf(c) = <<>>) \/ FirstMatchLists(c, 0) =>
                /\ out[c].resp = <<InvalidJustificationResponse(c)>>
                /\ out[c].err = <<>>
                /\ ~out[c].panicked
        /\ Len(recv[c]) = 1 /\ Status4xx(recv[c][1]) =>
                /\ out[c].resp = <<InvalidJustificationResponse(c)>>
                /\ out[c].err = <<>>
                /\ ~out[c].panicked

C5_Witness ==
    \E c \in Calls :
        /\ Done(c) /\ FirstMatchLists(c, 0)
        /\ MatchesOf(c)[1].errors # <<>>
        /\ ValidFalse(c)

C7_Status4xxIsInvalid ==
    \A c \in Calls :
        Done(c) /\ (\E i \in 1..Len(recv[c]) : Status4xx(recv[c][i])) =>
            /\ ValidFalse(c)
            /\ out[c].err = <<>>

C7_Witness ==
    \E c \in Calls :
        /\ Done(c) /\ Len(recv[c]) = 2 /\ Status4xx(recv[c][2])
        /\ recv[c][2].body.form = "malformed"

\* C8: if the lookup call or the match call is answered with a status of
\* 500 or more, Validate returns a fatal error and a nil response, unlike
\* the 4xx case, which yields a response and a nil error.
C8_Status5xxIsFatal ==
    \A c \in Calls : Done(c) =>
        /\ (\E i \in 1..Len(recv[c]) : Status5xx(recv[c][i])) =>
                /\ out[c].resp = <<>>
                /\ out[c].err = <<InternalError(c)>>
                /\ ~out[c].panicked
        /\ (\E i \in 1..Len(recv[c]) : Status4xx(recv[c][i])) =>
                /\ out[c].resp # <<>>
                /\ out[c].err = <<>>

C8_Witness ==
    \E c \in Calls :
        /\ Done(c) /\ Len(recv[c]) = 2 /\ Status5xx(recv[c][2])
        /\ recv[c][2].body.form = "object"
        /\ out[c].err # <<>>

\* C9: a transport failure or a response-decoding failure on either outbound
\* call makes Validate return a fatal error and a nil response, never a
\* valid=false or a valid=true response.
C9_TransportOrDecodeIsFatal ==
    \A c \in Calls :
        Done(c) /\ (\E i \in 1..Len(recv[c]) :
                        TransportFailed(recv[c][i]) \/ Undecodable(recv[c][i])) =>
            /\ out[c].resp = <<>>
            /\ out[c].err = <<InternalError(c)>>
            /\ ~out[c].panicked

C9_Witness ==
    \E c \in Calls :
        /\ Done(c) /\ Len(recv[c]) = 2
        /\ Undecodable(recv[c][2])
        /\ out[c].err # <<>>

\* The faults of call c: its request is rejected locally, the remote found
\* an input fault, the backend or the transport failed, the URL of the
\* matched issue cannot be built.
LocalViolation(c) == req[c].Category # "jira" \/ req[c].Value = <<>>
RemoteInputFault(c) ==
    \/ \E i \in 1..Len(recv[c]) : Status4xx(recv[c][i])
    \/ MatchSucceeded(c) /\ MatchesOf(c) = <<>>
    \/ MatchSucceeded(c) /\ MatchesOf(c) # <<>> /\ ~MatchesOf(c)[1].null
        /\ Len(MatchesOf(c)[1].matchedIssues) # 1
BackendFault(c) ==
    \E i \in 1..Len(recv[c]) :
        Status5xx(recv[c][i]) \/ TransportFailed(recv[c][i]) \/ Undecodable(recv[c][i])
URLFault(c) == FirstMatchLists(c, 1) /\ ~plugin.issueBaseURL.parses

\* C10: every Validate call returns exactly one of a response and an error:
\* local shape violations and input faults found by the remote yield a
\* valid=false response with a nil error, and only transport or backend
\* faults and a failure to build the browse URL yield an error, with a nil
\* response; no call returns both or neither.
C10_ResponseXorError ==
    \A c \in Calls : Done(c) =>
        /\ ~out[c].panicked
        /\ (out[c].resp # <<>>) # (out[c].err # <<>>)
        /\ (LocalViolation(c) \/ RemoteInputFault(c) =>
                ValidFalse(c) /\ out[c].err = <<>>)
        /\ (out[c].err # <<>> => BackendFault(c) \/ URLFault(c))

\* C11: whenever MatchIssue succeeds, the warnings of the filter evaluation
\* (the Errors of the first Match) appear in the Warning list of the
\* response that Validate returns, be the response valid or invalid.
C11_WarningsForwarded ==
    \A c \in Calls :
        Done(c) /\ MatchSucceeded(c) /\ MatchesOf(c) # <<>>
            /\ ~MatchesOf(c)[1].null /\ ReturnedResponse(c) =>
        \A i \in 1..Len(MatchesOf(c)[1].errors) :
            \E k \in 1..Len(out[c].resp[1].Warning) :
                out[c].resp[1].Warning[k] = MatchesOf(c)[1].errors[i]

\* An answer whose body the decoder is given: a response with a status
\* below 400.
BodyRead(a) == a.transport = Nil /\ a.status < 400

\* C12, as the specification states it: for every response with a status
\* below 400 whose body is longer than the cap of 4,000,000 bytes, decoding
\* is rejected with an error, so that the call fails, and at most cap bytes
\* of the body are read.
C12_LongBodyRejected ==
    \A c \in Calls : Done(c) =>
        \A i \in 1..Len(recv[c]) :
            BodyRead(recv[c][i]) /\ recv[c][i].body.length > 4000000 =>
                /\ read[c][i] <= 4000000
                /\ Len(recv[c]) = i
                /\ out[c].resp = <<>>
                /\ out[c].err = <<InternalError(c)>>

\* C12, as the code decodes: at most cap bytes of a body are ever read;
\* decoding is rejected, and the call fails, when the first JSON value of
\* the body does not end within the cap; a body longer than the cap whose
\* first JSON value ends within the cap is decoded from that value and the
\* call goes on.
C12_CapBoundsRead ==
    \A c \in Calls : Done(c) =>
        /\ Len(read[c]) = Len(recv[c])
        /\ \A i \in 1..Len(recv[c]) :
            LET a == recv[c][i] IN
            /\ read[c][i] <= 4000000
            /\ (BodyRead(a) /\ a.body.valueEnd > 4000000 =>
                    /\ Len(recv[c]) = i
                    /\ out[c].resp = <<>>
                    /\ out[c].err = <<InternalError(c)>>)
            /\ (BodyRead(a) /\ a.body.length > 4000000
                    /\ a.body.valueEnd <= 4000000 /\ a.body.form = "object" =>
                    /\ read[c][i] = 4000000
                    /\ IF i = 1
                        THEN /\ Len(recv[c]) = 2
                             /\ sent[c][2].issueIds = <<a.body.id>>
                        ELSE ReturnedResponse(c) \/ URLFault(c))

C12_Witness ==
    \E c \in Calls :
        /\ Done(c) /\ Len(recv[c]) = 2
        /\ BodyRead(recv[c][2])
        /\ recv[c][2].body.length > 4000000
        /\ recv[c][2].body.valueEnd <= 4000000
        /\ read[c][2] = 4000000
        /\ ValidTrue(c)

\* What a Validate call returns when it runs alone on plugin p with request
\* r and is given the answers of the remote in order.
OutcomeAlone(p, r, answers) ==
    IF ValidateLocal(r) # <<>> THEN ValidateLocal(r)[1]
    ELSE IF jiraIssue(answers[1]).err # Nil
        THEN ValidateResult(p.issueBaseURL, r.Value,
                validateWithJiraEndpoint(r.Value,
                    MatchIssueLookupFailed(r.Value, jiraIssue(answers[1]).err)))
    ELSE ValidateResult(p.issueBaseURL, r.Value,
            validateWithJiraEndpoint(r.Value,
                MatchIssue(r.Value, matchJQL(answers[2]))))

\* C13: when Validate calls interleave on one plugin, every call returns
\* what it would return running alone against the answers it was given,
\* and the match request of a call carries the issue id that the lookup of
\* the same call resolved.
C13_CallsIndependent ==
    \A c \in Calls :
        /\ Len(sent[c]) = 2 =>
            /\ Len(recv[c]) >= 1
            /\ sent[c][2].issueIds = <<recv[c][1].body.id>>
        /\ Done(c) => out[c] = OutcomeAlone(plugin, req[c], recv[c])

C13_Witness ==
    \E c, d \in Calls :
        /\ c # d /\ Done(c) /\ pc[d] = "match"
        /\ req[c].Value # req[d].Value
        /\ ValidTrue(c)
        /\ sent[c][2].issueIds = <<"1234">>
        /\ sent[d][2].issueIds = <<"5678">>

\* cfg.Validate() has returned, with an error or with nil.
Validated == validated # <<>>
Rejected == Validated /\ validated[1] # <<>>

MakeRequestOf(c, i) ==
    makeRequest(recv[c][i], IF i = 1 THEN "jiraIssue" ELSE "MatchResult")

\* C15: makeRequest classifies a response by its status before it looks at
\* the body: 500 and more is an error without the invalid-input sentinel,
\* 400 to 499 an error with it, and only below 400 the body is decoded; from
\* 400 up nothing of the body is read, so that a malformed body is reported
\* as the status error and not as a decode error.
C15_StatusBeforeBody ==
    \A c \in Calls : \A i \in 1..Len(recv[c]) :
        recv[c][i].transport = Nil =>
            LET a == recv[c][i]
                r == MakeRequestOf(c, i) IN
            /\ a.status >= 500 =>
                /\ r.err # Nil
                /\ r.err[1].fmt = "failed to make request to %s, got response code %d"
                /\ ~ErrorsIs(r.err, errInvalidJustification)
                /\ read[c][i] = 0
            /\ a.status >= 400 /\ a.status < 500 =>
                /\ r.err # Nil
                /\ r.err[1].fmt = "failed to make request to %s, got response code %d"
                /\ ErrorsIs(r.err, errInvalidJustification)
                /\ read[c][i] = 0
            /\ a.status < 400 =>
                /\ r.err = Nil \/ r.err[1].fmt = "failed to decode response"
                /\ (r.err = Nil <=> Completed(a))
                /\ read[c][i] > 0

C15_Witness ==
    \E c \in Calls :
        /\ Done(c) /\ Len(recv[c]) = 2
        /\ recv[c][2].transport = Nil
        /\ recv[c][2].status = 500
        /\ recv[c][2].body.form = "malformed"
        /\ read[c][2] = 0
        /\ MakeRequestOf(c, 2).err[1].fmt # "failed to decode response"

\* Call c has passed the local checks of Validate, so MatchIssue is called.
CallsMatchIssue(c) == req[c].Category = "jira" /\ req[c].Value # <<>>

\* C16, as the specification states it: every MatchIssue call issues two
\* network requests, the lookup GET and then the match POST.
C16_AlwaysTwoRequests ==
    \A c \in Calls : Done(c) /\ CallsMatchIssue(c) =>
        /\ Len(sent[c]) = 2
        /\ sent[c][1].method = "GET"
        /\ sent[c][2].method = "POST"

\* The requests of call c so far: the lookup GET, then the match POST once
\* the lookup has succeeded.
RequestsInOrder(c) ==
    /\ pc[c] = "idle" => sent[c] = <<>>
    /\ pc[c] = "lookup" => Len(sent[c]) = 1 /\ recv[c] = <<>>
    /\ pc[c] = "match" => Len(sent[c]) = 2 /\ Len(recv[c]) = 1
    /\ Len(sent[c]) >= 1 =>
        /\ sent[c][1].method = "GET"
        /\ sent[c][1].url =
            "https://example.atlassian.net/"
                \o Text(PathJoin(<<"rest", "api", "3", "issue">> \o req[c].Value))
        /\ (req[c].Value = <<"ABCD">> =>
                sent[c][1].url = "https://example.atlassian.net/rest/api/3/issue/ABCD")
    /\ Len(sent[c]) = 2 =>
        /\ sent[c][2].method = "POST"
        /\ sent[c][2].url = "https://example.atlassian.net/rest/api/3/jql/match"
        /\ Completed(recv[c][1])
    /\ Done(c) /\ CallsMatchIssue(c) =>
        /\ Len(sent[c]) = IF Completed(recv[c][1]) THEN 2 ELSE 1
        /\ Len(recv[c]) = Len(sent[c])
    /\ Done(c) /\ ~CallsMatchIssue(c) => sent[c] = <<>>

\* C16, as the code calls: every MatchIssue call issues the lookup GET
\* first and the match POST after it only when the lookup has succeeded,
\* two requests then and one otherwise, and no step of it changes the
\* Validator or the JiraPlugin.
C16_LookupThenMatch ==
    /\ [](\A c \in Calls : RequestsInOrder(c))
    /\ [][validator' = validator /\ plugin' = plugin]_vars

C16_Witness ==
    \E c \in Calls :
        /\ Done(c) /\ CallsMatchIssue(c)
        /\ Len(sent[c]) = 2
        /\ sent[c][1].method = "GET" /\ sent[c][2].method = "POST"
        /\ Status5xx(recv[c][2])

\* The positions in sent[c] of the requests with the given method.
RequestsWith(c, method) == {i \in 1..Len(sent[c]) : sent[c][i].method = method}

\* Call c has just been given an answer that makes its sub-call fail.
FailedAnswerArrives(c) ==
    /\ Len(recv'[c]) = Len(recv[c]) + 1
    /\ ~Completed(recv'[c][Len(recv'[c])])

\* C17: within one Validate call at most one lookup GET and at most one
\* match POST are issued; when a sub-call fails, by a 4xx or 5xx status, a
\* transport failure or a decode failure, the call returns at once and no
\* request is issued again.
C17_NoRetries ==
    /\ [](\A c \in Calls :
            /\ Cardinality(RequestsWith(c, "GET")) <= 1
            /\ Cardinality(RequestsWith(c, "POST")) <= 1
            /\ Len(sent[c]) <= 2
            /\ Len(recv[c]) <= Len(sent[c]))
    /\ [][\A c \in Calls :
            FailedAnswerArrives(c) => sent'[c] = sent[c] /\ pc'[c] = "done"]_vars

C17_Witness ==
    \E c \in Calls :
        /\ Done(c) /\ Len(sent[c]) = 1 /\ Len(recv[c]) = 1
        /\ TransportFailed(recv[c][1])
        /\ ReturnedError(c)

\* C18: if the caller cancels the context during a Validate call, the
\* outbound call in flight aborts with the error of the context, a match
\* POST that is not yet issued is never issued, and Validate returns the
\* fatal error: no response, valid or invalid.
C18_CancelAborts ==
    \A c \in Calls : Done(c) /\ Cancelled(c) =>
        /\ recv[c][Len(recv[c])].transport = <<[fmt |-> "context canceled", args |-> <<>>]>>
        /\ read[c][Len(read[c])] = 0
        /\ (cancelled[c] = "lookup" =>
                Len(recv[c]) = 1 /\ RequestsWith(c, "POST") = {})
        /\ (cancelled[c] = "match" => Len(recv[c]) = 2)
        /\ out[c].resp = <<>>
        /\ out[c].err = <<InternalError(c)>>
        /\ ~out[c].panicked

C18_Witness ==
    \E c \in Calls :
        /\ Done(c) /\ cancelled[c] = "lookup"
        /\ Len(sent[c]) = 1
        /\ ReturnedError(c)

\* C19: the match POST of a MatchIssue call carries exactly one issue
\* identifier and exactly one filter expression: the identifier is the id
\* that the lookup response of the same call returned, not the key that the
\* caller supplied, and the filter is the JQL configured at construction.
C19_MatchBodyIsIdAndJql ==
    \A c \in Calls : Len(sent[c]) = 2 =>
        /\ sent[c][2].method = "POST"
        /\ Len(sent[c][2].issueIds) = 1
        /\ sent[c][2].issueIds[1] = recv[c][1].body.id
        /\ sent[c][2].issueIds[1] # Text(req[c].Value)
        /\ Len(sent[c][2].jqls) = 1
        /\ sent[c][2].jqls[1] = validator.jql
        /\ sent[c][2].jqls[1] = "status NOT IN (Done)"

C19_Witness ==
    \E c \in Calls :
        /\ Len(sent[c]) = 2
        /\ req[c].Value = <<"ABCD">>
        /\ recv[c][1].body.key = <<"ZZ-9">>
        /\ sent[c][2].issueIds = <<"5678">>

\* C20: the issue is resolved afresh on every validation: a call that
\* passes the local checks issues its own lookup, and its own match once
\* the lookup has succeeded, whatever earlier calls have found; it returns
\* what the answers given to it determine, so that a value found valid by an
\* earlier call is reported invalid once the remote matches it no longer.
C20_NoCaching ==
    \A c \in Calls :
        /\ pc[c] # "idle" /\ CallsMatchIssue(c) =>
            /\ Len(sent[c]) >= 1
            /\ sent[c][1].method = "GET"
        /\ Done(c) /\ CallsMatchIssue(c) =>
            /\ Len(recv[c]) >= 1
            /\ Completed(recv[c][1]) => Len(sent[c]) = 2 /\ Len(recv[c]) = 2
            /\ out[c] =
                IF ~Completed(recv[c][1])
                    THEN ValidateResult(plugin.issueBaseURL, req[c].Value,
                            validateWithJiraEndpoint(req[c].Value,
                                MatchIssueLookupFailed(req[c].Value,
                                    jiraIssue(recv[c][1]).err)))
                    ELSE ValidateResult(plugin.issueBaseURL, req[c].Value,
                            validateWithJiraEndpoint(req[c].Value,
                                MatchIssue(req[c].Value, matchJQL(recv[c][2]))))
        /\ Done(c) /\ CallsMatchIssue(c) /\ req[c].Value \in earlier
                /\ (FirstMatchLists(c, 0) \/ Status4xx(recv[c][1])) =>
            ValidFalse(c)

C20_Witness ==
    \E c \in Calls :
        /\ Done(c) /\ req[c].Value = <<"ABCD">>
        /\ <<"ABCD">> \in earlier
        /\ FirstMatchLists(c, 0)
        /\ ValidFalse(c)

\* C21: the configuration held by the plugin and by the client (base URL,
\* JQL, account, API token, browse base, display name, hint) is changed by no
\* Validate and no GetUIData call, and GetUIData returns the display name
\* and the hint of the configuration the plugin was built from, with a nil
\* error.
C21_ConfigImmutable ==
    /\ [][plugin' = plugin /\ validator' = validator /\ cfg' = cfg]_vars
    /\ [](ui # <<>> => ui[1] = [data |-> UIData(cfg), err |-> Nil])

C21_Witness ==
    /\ ui # <<>>
    /\ ui[1].data.DisplayName = "Ticket"
    /\ earlier # {}
    /\ \E c \in Calls : Done(c) /\ ReturnedError(c)

\* The lookup of c has been answered and has failed.
LookupFailed(c) == Len(recv[c]) >= 1 /\ ~Completed(recv[c][1])

\* What MatchIssue returns to c when its lookup has failed: a nil result and
\* the error of jiraIssue, wrapped.
MatchIssueReturn(c) ==
    [result |-> <<>>,
     err |-> Errorf("failed to get jira issue %q", <<Text(req[c].Value)>>,
                    Errorf(IF TransportFailed(recv[c][1])
                               THEN "failed to make request"
                           ELSE IF recv[c][1].status >= 400
                               THEN "failed to make request to %s, got response code %d"
                           ELSE "failed to decode response",
                           IF ~TransportFailed(recv[c][1]) /\ recv[c][1].status >= 400
                               THEN <<ToString(recv[c][1].status)>> ELSE <<>>,
                           IF TransportFailed(recv[c][1]) THEN recv[c][1].transport
                           ELSE IF Status4xx(recv[c][1]) THEN errInvalidJustification
                           ELSE IF Status5xx(recv[c][1]) THEN Nil
                           ELSE Decode(LimitReader(recv[c][1].body, 4000000),
                                       "jiraIssue").err))]

\* C22: the match POST is issued only after the lookup GET of the same
\* MatchIssue call has succeeded; when the lookup fails (4xx, 5xx, transport
\* failure, decode failure) MatchIssue returns the error of the lookup with a
\* nil result, and no request goes to the match endpoint.
C22_MatchOnlyAfterLookup ==
    \A c \in Calls :
        /\ RequestsWith(c, "POST") # {} =>
            /\ Len(recv[c]) >= 1
            /\ Completed(recv[c][1])
            /\ issue[c] # <<>>
        /\ LookupFailed(c) =>
            /\ \/ TransportFailed(recv[c][1])
               \/ Status4xx(recv[c][1])
               \/ Status5xx(recv[c][1])
               \/ Undecodable(recv[c][1])
            /\ Done(c)
            /\ Len(recv[c]) = 1
            /\ RequestsWith(c, "POST") = {}
            /\ issue[c] = <<>>
            /\ MatchIssueReturn(c) =
                MatchIssueLookupFailed(req[c].Value, jiraIssue(recv[c][1]).err)
            /\ out[c] = ValidateResult(plugin.issueBaseURL, req[c].Value,
                            validateWithJiraEndpoint(req[c].Value, MatchIssueReturn(c)))

C22_Witness ==
    \E c \in Calls :
        /\ Done(c) /\ LookupFailed(c)
        /\ Undecodable(recv[c][1])
        /\ recv[c][1].body.form = "array"
        /\ RequestsWith(c, "POST") = {}
        /\ ReturnedError(c)

\* C23: the fatal error of Validate says nothing about its cause: its code
\* is Internal and its message is made of the justification value alone, so
\* two calls with the same value that fail for different reasons (5xx on the
\* lookup or on the match, transport failure, decode failure, browse URL that
\* cannot be built) return the same error.
C23_FatalErrorHidesCause ==
    /\ \A c \in Calls : Done(c) /\ out[c].err # <<>> =>
        /\ out[c].resp = <<>>
        /\ Len(out[c].err) = 1
        /\ out[c].err[1].code = "Internal"
        /\ out[c].err[1].msg =
            [fmt |-> "unable to validate jira issue %q",
             args |-> <<Text(req[c].Value)>>]
    /\ \A c, d \in Calls :
        /\ Done(c) /\ Done(d)
        /\ out[c].err # <<>> /\ out[d].err # <<>>
        /\ req[c].Value = req[d].Value
        => out[c].err = out[d].err

C23_Witness ==
    \E c, d \in Calls :
        /\ Done(c) /\ Done(d) /\ req[c].Value = req[d].Value
        /\ ReturnedError(c) /\ ReturnedError(d)
        /\ Len(recv[c]) = 1 /\ Undecodable(recv[c][1])
        /\ Len(recv[d]) = 2 /\ Status5xx(recv[d][2])

\* A lookup answer with a status below 400 whose body is JSON of another
\* shape than an issue: not an object, or an object without an id.
NotIssueShaped(a) ==
    /\ a.transport = Nil /\ a.status < 400
    /\ a.body.valueEnd <= jiraResponseSizeLimitBytes
    /\ \/ a.body.form \in {"null", "array"}
       \/ a.body.form = "object" /\ a.body.id = ""

\* C24: a lookup response with a status below 400 whose JSON body has not
\* the shape of an issue (an object without an id field, for one) is
\* rejected as a decode error, and no match request goes out with an empty
\* or missing identifier.
C24_IssueShapeChecked ==
    \A c \in Calls :
        /\ Len(recv[c]) >= 1 /\ NotIssueShaped(recv[c][1]) =>
            /\ Done(c)
            /\ RequestsWith(c, "POST") = {}
            /\ out[c] = Returns(<<>>, <<InternalError(c)>>)
        /\ \A i \in RequestsWith(c, "POST") :
            /\ Len(sent[c][i].issueIds) = 1
            /\ sent[c][i].issueIds[1] # ""

\* The values of annotation key in the response of c.
AnnotationsOf(c, key) == {a[2] : a \in {b \in out[c].resp[1].Annotation : b[1] = key}}

\* C25: when the browse URL cannot be built from the configured browse base
\* and the value after a single match was found, Validate returns the fatal
\* internal error and a nil response; a valid=true response always carries
\* the whole jira_issue_url.
C25_URLFailureIsFatal ==
    \A c \in Calls : Done(c) =>
        /\ FirstMatchLists(c, 1) /\ ~plugin.issueBaseURL.parses =>
            /\ out[c].resp = <<>>
            /\ out[c].err = <<InternalError(c)>>
            /\ ~out[c].panicked
        /\ ValidTrue(c) =>
            /\ plugin.issueBaseURL.parses
            /\ AnnotationsOf(c, "jira_issue_url") =
                {plugin.issueBaseURL.origin \o "/"
                    \o Text(PathJoin(plugin.issueBaseURL.path \o <<"browse">>
                                        \o req[c].Value))}
            /\ \A u \in AnnotationsOf(c, "jira_issue_url") : u # ""

C25_Witness ==
    \E c \in Calls :
        /\ Done(c) /\ FirstMatchLists(c, 1) /\ ~plugin.issueBaseURL.parses
        /\ MatchesOf(c)[1].errors # <<>>
        /\ ReturnedError(c)

\* The steps of the startup, in the order of the code.
StartupOrder == <<"parse", "args", "validate", "secret", "client">>

\* C26: at startup the steps run in the order flag parsing, rejection of
\* unexpected arguments, configuration validation, secret fetch, client
\* construction: the secret store is not contacted when the configuration is
\* invalid, no client is built when the secret fetch fails, and a plugin is
\* returned, and served, only if every step succeeded.
C26_StartupOrder ==
    /\ Len(boot.trace) <= Len(StartupOrder)
    /\ boot.trace = SubSeq(StartupOrder, 1, Len(boot.trace))
    /\ boot.secret # <<>> =>
        /\ boot.input.parses /\ boot.input.rest = <<>>
        /\ validated = <<Nil>>
        /\ boot.secret[1].name = boot.input.cfg.APITokenSecretID
    /\ (~boot.input.parses \/ boot.input.rest # <<>>
            \/ PluginConfigValidate(boot.input.cfg) # Nil) =>
        /\ boot.secret = <<>>
        /\ boot.step \in {"parse", "args", "validate", "failed", "exited"}
    /\ boot.secret # <<>> /\ boot.secret[1].ans.err # Nil =>
        /\ boot.validator = <<>>
        /\ boot.step \in {"failed", "exited"}
        /\ boot.trace = SubSeq(StartupOrder, 1, 4)
    /\ boot.validator # <<>> =>
        boot.validator[1].apiToken = boot.secret[1].ans.data
    /\ boot.plugin # <<>> <=> boot.step \in {"returned", "serving"}
    /\ boot.plugin # <<>> =>
        /\ boot.trace = StartupOrder
        /\ boot.input.parses /\ boot.input.rest = <<>>
        /\ cfg = boot.input.cfg
        /\ PluginConfigValidate(cfg) = Nil
        /\ boot.secret # <<>> /\ boot.secret[1].ans.err = Nil
        /\ cfg.JIRAEndpoint # BadEndpoint
        /\ boot.validator # <<>>
        /\ boot.plugin[1].validator = boot.validator[1]
        /\ boot.err = Nil
    /\ boot.served => boot.plugin # <<>>
    /\ boot.err # Nil <=> boot.step \in {"failed", "exited"}

C26_Witness ==
    /\ boot.step = "serving" /\ boot.served
    /\ boot.trace = StartupOrder
    /\ boot.plugin # <<>>
    /\ boot.plugin[1].validator.apiToken = "secrets"

\* Call c is waiting for the answer to an outbound call.
InFlight(c) == pc[c] \in {"lookup", "match"}

\* Every call that waits for an answer comes to its end.
CallsEnd == \A c \in Calls : InFlight(c) ~> Done(c)

\* C27: every Validate call eventually returns a response or an error,
\* provided each outbound HTTP call eventually completes, fails or times out;
\* it makes at most two blocking calls, one after the other, and waits for
\* nothing else.
C27_EventuallyReturns ==
    /\ CallsEnd
    /\ [](\A c \in Calls :
            /\ Done(c) => ReturnedResponse(c) \/ ReturnedError(c)
            /\ Len(sent[c]) <= 2
            /\ InFlight(c) => Len(recv[c]) = Len(sent[c]) - 1)

\* What Validate makes of the result that holds the first Match of the
\* result of c and no other.
OutcomeOfFirstAlone(c) ==
    ValidateResult(plugin.issueBaseURL, req[c].Value,
        validateWithJiraEndpoint(req[c].Value,
            [result |-> <<[Matches |-> <<MatchesOf(c)[1]>>]>>, err |-> Nil]))

\* C28: when the match result holds more than one Match, Validate decides
\* from the first one alone: the matched issues and the warnings of the
\* later entries change neither the validity nor the annotations nor the
\* warnings of the response, and they raise no error.
C28_FirstMatchDecides ==
    \A c \in Calls :
        Done(c) /\ MatchSucceeded(c) /\ Len(MatchesOf(c)) > 1 =>
            /\ out[c] = OutcomeOfFirstAlone(c)
            /\ FirstMatchLists(c, 1) /\ plugin.issueBaseURL.parses =>
                /\ ValidTrue(c)
                /\ out[c].err = <<>>
                /\ out[c].resp[1].Warning = MatchesOf(c)[1].errors
                /\ AnnotationsOf(c, "jira_issue_id") =
                    {Itoa(MatchesOf(c)[1].matchedIssues[1])}
            /\ out[c].err # <<>> => FirstMatchLists(c, 1) /\ ~plugin.issueBaseURL.parses

C28_Witness ==
    \E c \in Calls :
        /\ Done(c) /\ MatchSucceeded(c) /\ Len(MatchesOf(c)) = 2
        /\ MatchesOf(c)[1] = [null |-> FALSE, matchedIssues |-> <<1234>>,
                              errors |-> <<>>]
        /\ MatchesOf(c)[2] = [null |-> FALSE, matchedIssues |-> <<5678>>,
                              errors |-> <<"jql warning">>]
        /\ ValidTrue(c)
        /\ out[c].resp[1].Warning = <<>>

\* The keys of the annotation map of response r.
AnnotationKeys(r) == {a[1] : a \in r.Annotation}

\* C29: every response that Validate returns has one of two shapes:
\* valid=true with an empty error list and an annotation map of exactly the
\* keys jira_issue_id and jira_issue_url, or valid=false with exactly one
\* error string and no annotation; no response mixes the two.
C29_TwoResponseShapes ==
    \A c \in Calls : Done(c) /\ out[c].resp # <<>> =>
        LET r == out[c].resp[1] IN
        /\ Len(out[c].resp) = 1
        /\ IF r.Valid
            THEN /\ r.Error = <<>>
                 /\ AnnotationKeys(r) = {"jira_issue_id", "jira_issue_url"}
                 /\ Cardinality(r.Annotation) = 2
            ELSE /\ Len(r.Error) = 1
                 /\ r.Annotation = {}

C29_Witness ==
    \E c \in Calls :
        /\ Done(c) /\ ValidTrue(c)
        /\ out[c].resp[1].Warning = <<"jql warning">>
        /\ Cardinality(out[c].resp[1].Annotation) = 2
        /\ <<"ABCD">> \in earlier

\* The first Match of the result of c lists the single identifier m.
SingleMatch(c, m) == FirstMatchLists(c, 1) /\ MatchesOf(c)[1].matchedIssues = <<m>>

\* C30, as the specification states it: the jira_issue_id annotation is the
\* single identifier of the match response and is not compared with the id
\* the lookup resolved; Validate returns valid=true with jira_issue_id = m
\* whenever the first Match lists exactly one identifier m, also when m is
\* not the id submitted in the match request.
C30_MatchedIdAlwaysValid ==
    \A c \in Calls : \A m \in IssueNumbers :
        Done(c) /\ SingleMatch(c, m) =>
            /\ ValidTrue(c)
            /\ AnnotationsOf(c, "jira_issue_id") = {Itoa(m)}

\* C30, with the browse base taken into account: the same whenever the
\* browse base parses, whatever id was submitted in the match request; when
\* the base does not parse the call ends with the internal error.
C30_MatchedIdNotCompared ==
    \A c \in Calls : \A m \in IssueNumbers :
        Done(c) /\ SingleMatch(c, m) =>
            /\ Len(sent[c]) = 2
            /\ sent[c][2].issueIds = <<recv[c][1].body.id>>
            /\ IF plugin.issueBaseURL.parses
                THEN /\ ValidTrue(c)
                     /\ AnnotationsOf(c, "jira_issue_id") = {Itoa(m)}
                ELSE out[c] = Returns(<<>>, <<InternalError(c)>>)

C30_Witness ==
    \E c \in Calls :
        /\ Done(c) /\ SingleMatch(c, 5678)
        /\ sent[c][2].issueIds = <<"1234">>
        /\ ValidTrue(c)
        /\ AnnotationsOf(c, "jira_issue_id") = {"5678"}

====
